---- MODULE Spec2Model ----
(***************************************************************************)
(* The out-of-band checkout authorization of the shopping chat app: the    *)
(* authorization request stores, the routes that create, poll, decide and  *)
(* complete a request, and the poller the chat stream starts.              *)
(*                                                                         *)
(* The repository holds two generations of the CIBA request store and of   *)
(* the routes written against each:                                        *)
(*   - the file-backed store (src/src/lib/ciba-storage.ts) with            *)
(*     /api/ciba-token (first handler pair of part_011), /api/authorize    *)
(*     POST and /api/checkout (src/src/app/api/checkout/route.ts);         *)
(*   - the in-memory store (part_004) with /api/ciba-token (second         *)
(*     handler of part_011) and /api/checkout (end of part_009).           *)
(* SpecFile is the first generation, SpecMem the second, SpecPopup the     *)
(* popup authorization, SpecPopupWait the popup poller's wait,             *)
(* SpecInitiate the checkout tools with no decision, SpecStore the stores  *)
(* under direct calls of their functions, SpecTransition the stores'       *)
(* transitions, SpecAuthorize the /authorize                               *)
(* page of the in-memory generation, SpecPopupResult the popup request's   *)
(* result, SpecCart the cart storage (cart-storage.ts), SpecLoop the token *)
(* polling loops and their intervals, SpecFrame the file store's calls     *)
(* from their load to their save, SpecAdd the addToCart calls of part_001, *)
(* SpecProgress the part_009 poller's status updates,                      *)
(* SpecStream the chat stream handler and its waits.  Each handler is one  *)
(* action, cut only where the handler awaits between a read and a write   *)
(* of a store.                                                             *)
(***************************************************************************)
EXTENDS Integers, Sequences, FiniteSets, TLC

(***************************************************************************)
(* Bounds of the model.                                                    *)
(***************************************************************************)
MaxReqs == 1
MaxPopups == 1
MaxTicks == 1
TickMs == 300001
MaxQty == 1
MaxInflight == 2
MaxAttempts == 2
MaxLoopAttempts == 7
MaxPolls == 2
MaxWaits == 2
MaxAuthErrors == 2
ProgressEvery == 2
\* const maxAttempts = 300 of pollForAuthorization, more than ProgressEvery
MaxAuthorizationAttempts == 4
MaxStoredReqs == 2
MaxCalls == 2

(***************************************************************************)
(* Program constants and input domains.                                    *)
(***************************************************************************)
TTL == 5 * 60 * 1000

Users == {"alice", "bob"}

NoUser == "anonymous"

Callers == Users \cup {NoUser}

\* The callers that put items into their cart.
Shoppers == {"alice", NoUser}

AuthReqIds == 1..MaxReqs

PopupIds == 1..MaxPopups

NoId == 0

\* PRODUCTS, as id -> price in cents (Milk 3.99, Bread 2.49).
PRODUCTS == [p \in {"1", "2"} |-> IF p = "1" THEN 399 ELSE 249]

ProductInputs == {"1", "999"}

Actions == {"approve", "deny"}

(***************************************************************************)
(* Maps keyed by request id (a JSON object / Map / Record in the source).  *)
(***************************************************************************)
Has(m, k) == k \in DOMAIN m

Put(m, k, v) == [j \in (DOMAIN m) \cup {k} |-> IF j = k THEN v ELSE m[j]]

Remove(m, k) == [j \in (DOMAIN m) \ {k} |-> m[j]]

EmptyMap == [j \in {} |-> 0]

VARIABLES now, carts, cibaFile, cibaRequests, authReqSeq, popupRequests, popupSeq,
          popupPoller, completed, inflight, poller, decideLog, resp,
          stream, waits, cartFile, cartBlobs, pollLoop, storeCalls, cartCalls

vars == <<now, carts, cibaFile, cibaRequests, authReqSeq, popupRequests, popupSeq,
          popupPoller, completed, inflight, poller, decideLog, resp,
          stream, waits, cartFile, cartBlobs, pollLoop, storeCalls, cartCalls>>

streamVars == <<stream, waits>>

\* the calls in flight of the store functions and of addToCart
callVars == <<storeCalls, cartCalls>>

cartVars == <<cartFile, cartBlobs>>

popupVars == <<popupRequests, popupSeq, popupPoller>>

cibaVars == <<cibaFile, authReqSeq, completed, inflight, poller, decideLog>>

(***************************************************************************)
(* shopping-store.ts (synchronous revision).                               *)
(* carts maps every user to the items of their cart.  getCart pushes an     *)
(* empty cart for a user that has none, so to every caller a missing cart  *)
(* and an empty cart are the same cart: the model holds both as <<>>.      *)
(***************************************************************************)
getCart(cs, userId) == IF userId \in DOMAIN cs THEN cs[userId] ELSE <<>>

RECURSIVE SumSubtotals(_)
SumSubtotals(items) ==
    IF items = <<>> THEN 0
    ELSE (IF Head(items).productId \in DOMAIN PRODUCTS
          THEN PRODUCTS[Head(items).productId] * Head(items).quantity
          ELSE 0) + SumSubtotals(Tail(items))

getCartWithProducts(cs, userId) ==
    [items |-> getCart(cs, userId), total |-> SumSubtotals(getCart(cs, userId))]

ItemIndex(items, productId) ==
    {i \in 1..Len(items) : items[i].productId = productId}

addToCartItems(items, productId, quantity) ==
    IF ItemIndex(items, productId) # {}
    THEN [i \in 1..Len(items) |->
            IF items[i].productId = productId
            THEN [items[i] EXCEPT !.quantity = @ + quantity]
            ELSE items[i]]
    ELSE Append(items, [productId |-> productId, quantity |-> quantity])

clearCart(cs, userId) == [cs EXCEPT ![userId] = <<>>]

(***************************************************************************)
(* ciba-storage.ts, file-backed: the JSON file is the map cibaFile.        *)
(***************************************************************************)
\* A variant that saves a map holding the new request only.
createCibaRequestAlone(file, authReqId, userId, checkoutData, t) ==
    Put(EmptyMap, authReqId,
        [userId |-> userId, status |-> "pending", timestamp |-> t,
         checkoutData |-> checkoutData])

createCibaRequest(file, authReqId, userId, checkoutData, t) ==
    Put(file, authReqId,
        [userId |-> userId, status |-> "pending", timestamp |-> t,
         checkoutData |-> checkoutData])

\* getCibaRequest returns requests.get(authReqId): the stored record as it is.
getCibaRequest(file, authReqId) == file[authReqId]

updateCibaRequestUpsert(file, authReqId, status) ==
    Put(file, authReqId,
        [userId |-> NoUser, status |-> status, timestamp |-> 0,
         checkoutData |-> [items |-> <<>>, total |-> 0]])

updateCibaRequest(file, authReqId, status) ==
    IF Has(file, authReqId) THEN [file EXCEPT ![authReqId].status = status] ELSE file

deleteCibaRequest(file, authReqId) == Remove(file, authReqId)

(***************************************************************************)
(* Responses.  resp is the response of the handler that ran in the last    *)
(* step (NoResp after a step that is no handler).  A successful checkout   *)
(* answers with the order it created; the order carries, beside what the   *)
(* handler returns, what the handler had read of the request when it       *)
(* created the order: the stored status, whether the TTL had passed, and   *)
(* whether the owner had denied it.                                        *)
(***************************************************************************)
NoOrder == [authReqId |-> 0, userId |-> "anonymous", total |-> 0, status |-> "none",
            expired |-> FALSE, afterDeny |-> FALSE]

Resp(op, code, body) == [op |-> op, code |-> code, body |-> body, order |-> NoOrder]

OrderResp(order) ==
    [op |-> "checkout.POST", code |-> 200, body |-> "success", order |-> order]

NoResp == Resp("none", 0, "")

Ok(code) == code \in 200..299

(***************************************************************************)
(* History of the decisions a decide handler answered with success, per    *)
(* request: the first one (it overwrote "pending"), whether its caller was *)
(* the owner, and whether a later, conflicting one succeeded too.          *)
(***************************************************************************)
NoDecision == [first |-> "none", byOwner |-> FALSE, conflict |-> FALSE]

Logged(log, authReqId, action, byOwner) ==
    IF log[authReqId].first = "none"
    THEN [log EXCEPT ![authReqId] =
            [first |-> action, byOwner |-> byOwner, conflict |-> FALSE]]
    ELSE IF log[authReqId].first # action
    THEN [log EXCEPT ![authReqId].conflict = TRUE]
    ELSE log

\* The owner's deny was the first successful decision on the pending request.
OwnerDenied(log, authReqId) ==
    /\ authReqId \in DOMAIN log
    /\ log[authReqId].first = "deny"
    /\ log[authReqId].byOwner

OwnerApproved(log, authReqId) ==
    /\ authReqId \in DOMAIN log
    /\ log[authReqId].first = "approve"
    /\ log[authReqId].byOwner

(***************************************************************************)
(* /api/ciba-token POST (status poll), file-backed generation.             *)
(* The result is the response and the file the handler leaves.             *)
(***************************************************************************)
Expired(request, t) == t - request.timestamp > TTL

CibaTokenPOST(file, user, authReqId, t) ==
    IF user = NoUser
    THEN [code |-> 401, body |-> "Unauthorized", file |-> file]
    ELSE IF authReqId = NoId
    THEN [code |-> 400, body |-> "Missing auth_req_id", file |-> file]
    ELSE IF ~Has(file, authReqId)
    THEN [code |-> 404, body |-> "Invalid auth_req_id", file |-> file]
    ELSE IF getCibaRequest(file, authReqId).userId # user
    THEN [code |-> 403, body |-> "Forbidden", file |-> file]
    ELSE IF Expired(getCibaRequest(file, authReqId), t)
    THEN [code |-> 408, body |-> "Authorization expired",
          file |-> deleteCibaRequest(file, authReqId)]
    ELSE CASE getCibaRequest(file, authReqId).status = "pending" ->
                [code |-> 200, body |-> "authorization_pending", file |-> file]
           [] getCibaRequest(file, authReqId).status = "approved" ->
                [code |-> 200, body |-> "approved", file |-> file]
           [] getCibaRequest(file, authReqId).status = "denied" ->
                [code |-> 403, body |-> "access_denied",
                 file |-> deleteCibaRequest(file, authReqId)]
           [] OTHER ->
                [code |-> 500, body |-> "Unknown status", file |-> file]

\* A client other than the chat poller polls the status (the authorize page
\* does so when it loads).
PollToken(user, authReqId) ==
    LET r == CibaTokenPOST(cibaFile, user, authReqId, now) IN
    /\ cibaFile' = r.file
    /\ resp' = Resp("ciba-token.POST", r.code, r.body)
    /\ UNCHANGED <<callVars, streamVars, pollLoop, cartVars, cibaRequests, now, carts, authReqSeq, popupVars, completed, inflight,
                   poller, decideLog>>

(***************************************************************************)
(* /api/ciba-token PUT (decide), file-backed generation.  The handler      *)
(* reads no session: user is the caller, which the handler never learns.   *)
(***************************************************************************)
StatusOf(action) == IF action = "approve" THEN "approved" ELSE "denied"

CibaTokenPUT(file, authReqId, action) ==
    IF ~Has(file, authReqId)
    THEN [code |-> 404, body |-> "Invalid auth_req_id", file |-> file]
    ELSE IF action \notin Actions
    THEN [code |-> 400, body |-> "Invalid action", file |-> file]
    ELSE [code |-> 200, body |-> "success",
          file |-> updateCibaRequest(file, authReqId, StatusOf(action))]

DecidePUT(user, authReqId, action) ==
    LET r == CibaTokenPUT(cibaFile, authReqId, action) IN
    /\ cibaFile' = r.file
    /\ resp' = Resp("ciba-token.PUT", r.code, r.body)
    /\ decideLog' = IF r.code = 200
                    THEN Logged(decideLog, authReqId, action,
                                cibaFile[authReqId].userId = user)
                    ELSE decideLog
    /\ UNCHANGED <<callVars, streamVars, pollLoop, cartVars, cibaRequests, now, carts, authReqSeq, popupVars, completed, inflight,
                   poller>>

(***************************************************************************)
(* /api/authorize POST (the authorize page's decision).                    *)
(***************************************************************************)
AuthorizePOST(file, user, authReqId, approved) ==
    IF user = NoUser
    THEN [code |-> 401, body |-> "Authentication required", file |-> file]
    ELSE IF authReqId = NoId
    THEN [code |-> 400, body |-> "authReqId and approved are required", file |-> file]
    ELSE IF ~Has(file, authReqId)
    THEN [code |-> 404, body |-> "Authorization request not found", file |-> file]
    ELSE IF getCibaRequest(file, authReqId).userId # user
    THEN [code |-> 403, body |-> "Unauthorized", file |-> file]
    ELSE [code |-> 200, body |-> "success",
          file |-> updateCibaRequest(file, authReqId,
                                     IF approved THEN "approved" ELSE "denied")]

DecideAuthorize(user, authReqId, approved) ==
    LET r == AuthorizePOST(cibaFile, user, authReqId, approved)
        action == IF approved THEN "approve" ELSE "deny" IN
    /\ cibaFile' = r.file
    /\ resp' = Resp("authorize.POST", r.code, r.body)
    /\ decideLog' = IF r.code = 200
                    THEN Logged(decideLog, authReqId, action, TRUE)
                    ELSE decideLog
    /\ UNCHANGED <<callVars, streamVars, pollLoop, cartVars, cibaRequests, now, carts, authReqSeq, popupVars, completed, inflight,
                   poller>>

(***************************************************************************)
(* popup-storage.ts: every operation reloads the map from the file and     *)
(* saves it back, so the map and the file are the one value popupRequests. *)
(***************************************************************************)
NoResult == [success |-> FALSE, itemCount |-> 0, total |-> 0]

\* storePopupRequest reads the clock twice, once for timestamp (t) and once
\* more for expiresAt (t2): the millisecond may change between the reads.
ClockSkew == {0, 1}

storePopupRequest(requests, id, userId, cartData, t, t2) ==
    Put(requests, id,
        [id |-> id, userId |-> userId, cartData |-> cartData, status |-> "pending",
         result |-> NoResult, error |-> "", timestamp |-> t, expiresAt |-> t2 + TTL])

\* The requests left by getPopupRequest: an expired request is deleted.
getPopupRequestStore(requests, id, t) ==
    IF Has(requests, id) /\ t > requests[id].expiresAt
    THEN Remove(requests, id)
    ELSE requests

\* A variant whose expiry test applies to pending requests only.
getPopupRequestFoundIfDecided(requests, id, t) ==
    Has(requests, id)
        /\ (requests[id].status # "pending" \/ ~(t > requests[id].expiresAt))

\* TRUE when getPopupRequest returns the request, FALSE when it returns null.
getPopupRequestFound(requests, id, t) ==
    Has(requests, id) /\ ~(t > requests[id].expiresAt)

updatePopupRequest(requests, id, status, result, error) ==
    IF Has(requests, id)
    THEN [requests EXCEPT ![id] =
            [@ EXCEPT !.status = status,
                      !.result = IF result # NoResult THEN result ELSE @,
                      !.error = IF error # "" THEN error ELSE @]]
    ELSE requests

(***************************************************************************)
(* /api/checkout POST, file-backed generation                              *)
(* (src/src/app/api/checkout/route.ts).                                    *)
(* CheckoutPOST is the handler up to the generated order id; when the body *)
(* carries an authReqId the handler then awaits an import before it        *)
(* deletes the request and answers (CheckoutFinish).                       *)
(***************************************************************************)
InvalidItems(items) ==
    {i \in 1..Len(items) : items[i].productId \notin DOMAIN PRODUCTS}

\* The cart data the handler checks out, by branch.
CheckoutBranch(action, authReqId) ==
    IF action = "popup_checkout_complete" THEN "popup"
    ELSE IF authReqId # NoId THEN "ciba"
    ELSE "regular"

CheckoutCart(file, cs, user, action, authReqId) ==
    IF CheckoutBranch(action, authReqId) = "ciba"
    THEN getCibaRequest(file, authReqId).checkoutData
    ELSE getCartWithProducts(cs, user)

CheckoutPOST(file, popups, cs, log, user, action, authReqId, popupRequestId, t) ==
    LET branch == CheckoutBranch(action, authReqId)
        none == [code |-> 0, body |-> "", carts |-> cs, popups |-> popups,
                 order |-> NoOrder]
    IN
    IF user = NoUser
    THEN [none EXCEPT !.code = 401, !.body = "Unauthorized"]
    ELSE IF branch = "ciba" /\ ~Has(file, authReqId)
    THEN [none EXCEPT !.code = 404, !.body = "Invalid authorization"]
    ELSE IF branch = "ciba" /\ getCibaRequest(file, authReqId).userId # user
    THEN [none EXCEPT !.code = 403, !.body = "Unauthorized"]
    ELSE
    LET cartData == CheckoutCart(file, cs, user, action, authReqId)
        popups2 ==
            IF branch = "popup" /\ popupRequestId # NoId
            THEN updatePopupRequest(popups, popupRequestId, "completed",
                     [success |-> TRUE, itemCount |-> Len(cartData.items),
                      total |-> cartData.total], "")
            ELSE popups
        done == [none EXCEPT !.popups = popups2]
    IN
    IF Len(cartData.items) = 0
    THEN [done EXCEPT !.code = 400, !.body = "Empty cart"]
    ELSE IF InvalidItems(cartData.items) # {}
    THEN [done EXCEPT !.code = 400, !.body = "Invalid cart"]
    ELSE [done EXCEPT !.code = 200, !.body = "success",
            !.order = [authReqId |-> authReqId, userId |-> user,
                       total |-> SumSubtotals(cartData.items),
                       status |-> IF branch = "ciba"
                                  THEN getCibaRequest(file, authReqId).status
                                  ELSE "none",
                       expired |-> IF branch = "ciba"
                                   THEN Expired(getCibaRequest(file, authReqId), t)
                                   ELSE FALSE,
                       afterDeny |-> OwnerDenied(log, authReqId)]]

(***************************************************************************)
(* The chat stream's tools (part_009).                                     *)
(***************************************************************************)
\* add_to_cart: addToCart(userId, productId, quantity).  The product is looked
\* up by id, then by name; ProductInputs holds ids only.
addToCart(cs, userId, productId, quantity) ==
    IF productId \notin DOMAIN PRODUCTS
    THEN cs
    ELSE [cs EXCEPT ![userId] = addToCartItems(getCart(cs, userId), productId, quantity)]

CartQty(cs, userId, productId) ==
    IF ItemIndex(getCart(cs, userId), productId) = {}
    THEN 0
    ELSE getCart(cs, userId)[CHOOSE i \in ItemIndex(getCart(cs, userId), productId) : TRUE].quantity

AddToCart(user, productId, quantity) ==
    /\ user # NoUser => CartQty(carts, user, productId) + quantity <= MaxQty
    /\ carts' = IF user = NoUser THEN carts ELSE addToCart(carts, user, productId, quantity)
    /\ resp' = Resp("add_to_cart",
                    IF user = NoUser THEN 401
                    ELSE IF productId \in DOMAIN PRODUCTS THEN 200 ELSE 404, "")
    /\ UNCHANGED <<callVars, streamVars, pollLoop, cartVars, cibaRequests, now, cibaFile, authReqSeq, popupVars, completed,
                   inflight, poller, decideLog>>

\* clearCart(userId), as the success page and the chat pollers call it.
ClearCart(user) ==
    /\ carts' = clearCart(carts, user)
    /\ resp' = Resp("clearCart", 200, "")
    /\ UNCHANGED <<callVars, streamVars, pollLoop, cartVars, cibaRequests, now, cibaFile, authReqSeq, popupVars, completed,
                   inflight, poller, decideLog>>

\* The poller the async_checkout tool starts for the request it created.
NoSessionNever(user) == FALSE

\* !session?.user?.sub
NoSession(user) == user = NoUser

EmptyCartNever(cartData) == FALSE

\* !cartData.items || cartData.items.length === 0
EmptyCart(cartData) == Len(cartData.items) = 0

NewPoller(userId) ==
    [userId |-> userId, pc |-> "sleep", attempts |-> 0, outcome |-> "none"]

\* async_checkout: session, cart, createCibaRequest, pollForAuthorization().
ChatAsyncCheckout(user) ==
    LET cartData == getCartWithProducts(carts, user)
        authReqId == authReqSeq + 1 IN
    IF NoSession(user)
    THEN /\ resp' = Resp("async_checkout", 401, "Unauthenticated")
         /\ UNCHANGED <<callVars, streamVars, pollLoop, cartVars, cibaRequests, now, carts, cibaFile, authReqSeq, popupVars,
                        completed, inflight, poller, decideLog>>
    ELSE IF EmptyCart(cartData)
    THEN /\ resp' = Resp("async_checkout", 400, "EmptyPayload")
         /\ UNCHANGED <<callVars, streamVars, pollLoop, cartVars, cibaRequests, now, carts, cibaFile, authReqSeq, popupVars, completed,
                        inflight, poller, decideLog>>
    ELSE /\ authReqSeq < MaxReqs
         /\ authReqSeq' = authReqId
         /\ cibaFile' = createCibaRequest(cibaFile, authReqId, user, cartData, now)
         /\ poller' = Put(poller, authReqId, NewPoller(user))
         /\ resp' = Resp("async_checkout", 200, "requiresAuth")
         /\ UNCHANGED <<callVars, streamVars, pollLoop, cartVars, cibaRequests, now, carts, popupVars, completed, inflight,
                        decideLog>>

(***************************************************************************)
(* /api/checkout POST as an action, and its continuation after the await.  *)
(***************************************************************************)
RemoveAt(seq, i) == SubSeq(seq, 1, i - 1) \o SubSeq(seq, i + 1, Len(seq))

CheckoutCall(user, action, authReqId, popupRequestId, pollerId) ==
    LET r == CheckoutPOST(cibaFile, popupRequests, carts, decideLog, user, action,
                          authReqId, popupRequestId, now) IN
    /\ carts' = r.carts
    /\ popupRequests' = r.popups
    /\ IF r.code = 200 /\ authReqId # NoId
       THEN /\ Len(inflight) < MaxInflight
            /\ inflight' = Append(inflight, [order |-> r.order, poller |-> pollerId])
            /\ resp' = NoResp
            /\ poller' = IF pollerId # NoId
                         THEN [poller EXCEPT ![pollerId].pc = "await_checkout"]
                         ELSE poller
       ELSE /\ inflight' = inflight
            /\ resp' = IF r.code = 200
                       THEN OrderResp(r.order)
                       ELSE Resp("checkout.POST", r.code, r.body)
            /\ poller' = IF pollerId # NoId
                         THEN [poller EXCEPT ![pollerId].pc = "done",
                                             ![pollerId].outcome = "checkout_failed"]
                         ELSE poller
    /\ UNCHANGED <<callVars, streamVars, pollLoop, cartVars, cibaRequests, now, cibaFile, authReqSeq, popupSeq, popupPoller, completed,
                   decideLog>>

CheckoutBegin(user, action, authReqId, popupRequestId) ==
    CheckoutCall(user, action, authReqId, popupRequestId, NoId)

\* completed counts, per request id, the orders answered for the request by
\* a handler that had read it as approved.
CheckoutFinish(i) ==
    LET call == inflight[i] IN
    /\ cibaFile' = deleteCibaRequest(cibaFile, call.order.authReqId)
    /\ completed' = IF call.order.status = "approved"
                    THEN [completed EXCEPT ![call.order.authReqId] = @ + 1]
                    ELSE completed
    /\ inflight' = RemoveAt(inflight, i)
    /\ resp' = OrderResp(call.order)
    /\ poller' = IF call.poller # NoId
                 THEN [poller EXCEPT ![call.poller].pc = "done",
                                     ![call.poller].outcome = "success"]
                 ELSE poller
    /\ UNCHANGED <<callVars, streamVars, pollLoop, cartVars, cibaRequests, now, carts, authReqSeq, popupVars, decideLog>>

(***************************************************************************)
(* pollForAuthorization (part_009): one poll per loop iteration.           *)
(***************************************************************************)
\* What the loop body does with the token response.
PollerAfterPoll(p, code, body) ==
    IF ~Ok(code)
    THEN CASE code = 404 -> [p EXCEPT !.pc = "done", !.outcome = "session_expired"]
           [] code = 403 -> [p EXCEPT !.pc = "done", !.outcome = "denied"]
           [] code = 408 -> [p EXCEPT !.pc = "done", !.outcome = "timed_out"]
           [] OTHER -> p
    ELSE CASE body = "approved" -> [p EXCEPT !.pc = "checkout"]
           [] body \in {"denied", "access_denied"} ->
                [p EXCEPT !.pc = "done", !.outcome = "denied"]
           [] body \in {"pending", "authorization_pending"} -> p
           [] OTHER -> [p EXCEPT !.pc = "done", !.outcome = "unexpected"]

PollerPoll(authReqId) ==
    /\ Has(poller, authReqId)
    /\ poller[authReqId].pc = "sleep"
    /\ poller[authReqId].attempts < MaxAttempts
    /\ LET p == poller[authReqId]
           r == CibaTokenPOST(cibaFile, p.userId, authReqId, now) IN
       /\ cibaFile' = r.file
       /\ poller' = [poller EXCEPT ![authReqId] =
                        PollerAfterPoll([p EXCEPT !.attempts = @ + 1], r.code, r.body)]
       /\ resp' = Resp("ciba-token.POST", r.code, r.body)
    /\ UNCHANGED <<callVars, streamVars, pollLoop, cartVars, cibaRequests, now, carts, authReqSeq, popupVars, completed, inflight,
                   decideLog>>

PollerTimeout(authReqId) ==
    /\ Has(poller, authReqId)
    /\ poller[authReqId].pc = "sleep"
    /\ poller[authReqId].attempts >= MaxAttempts
    /\ poller' = [poller EXCEPT ![authReqId].pc = "done",
                                ![authReqId].outcome = "timed_out"]
    /\ resp' = NoResp
    /\ UNCHANGED <<callVars, streamVars, pollLoop, cartVars, cibaRequests, now, carts, cibaFile, authReqSeq, popupVars, completed,
                   inflight, decideLog>>

PollerCheckout(authReqId) ==
    /\ Has(poller, authReqId)
    /\ poller[authReqId].pc = "checkout"
    /\ CheckoutCall(poller[authReqId].userId, "", authReqId, NoId, authReqId)

(***************************************************************************)
(* popup_checkout and pollPopupStatus (src/src/app/api/chat/route.ts).     *)
(***************************************************************************)
NewPopupPoller == [pc |-> "sleep", pollCount |-> 0, outcome |-> "none"]

\* popup_checkout: session, cart, storePopupRequest, setTimeout(pollPopupStatus).
ChatPopupCheckout(user) ==
    LET cartData == getCartWithProducts(carts, user)
        popupRequestId == popupSeq + 1 IN
    IF NoSession(user)
    THEN /\ resp' = Resp("popup_checkout", 401, "Unauthenticated")
         /\ UNCHANGED <<callVars, streamVars, pollLoop, cartVars, cibaRequests, now, carts, popupVars, cibaVars>>
    ELSE IF EmptyCart(cartData)
    THEN /\ resp' = Resp("popup_checkout", 400, "EmptyPayload")
         /\ UNCHANGED <<callVars, streamVars, pollLoop, cartVars, cibaRequests, now, carts, popupVars, cibaVars>>
    ELSE /\ popupSeq < MaxPopups
         /\ popupSeq' = popupRequestId
         /\ \E d \in ClockSkew :
                popupRequests' = storePopupRequest(popupRequests, popupRequestId, user,
                                                   cartData, now, now + d)
         /\ popupPoller' = Put(popupPoller, popupRequestId, NewPopupPoller)
         /\ resp' = Resp("popup_checkout", 200, "popupCheckout")
         /\ UNCHANGED <<callVars, streamVars, pollLoop, cartVars, cibaRequests, now, carts, cibaVars>>

PopupPollerBudgetFirst(p, found, status) ==
    IF p.pollCount >= MaxPolls THEN [p EXCEPT !.pc = "done", !.outcome = "timed_out"]
    ELSE IF ~found THEN [p EXCEPT !.pc = "done", !.outcome = "expired"]
    ELSE IF status = "completed" THEN [p EXCEPT !.pc = "done", !.outcome = "success"]
    ELSE IF status = "failed" THEN [p EXCEPT !.pc = "done", !.outcome = "failed"]
    ELSE p

\* What one run of pollPopupStatus does with what getPopupRequest returned.
PopupPollerAfterPoll(p, found, status) ==
    IF ~found THEN [p EXCEPT !.pc = "done", !.outcome = "expired"]
    ELSE IF status = "completed" THEN [p EXCEPT !.pc = "done", !.outcome = "success"]
    ELSE IF status = "failed" THEN [p EXCEPT !.pc = "done", !.outcome = "failed"]
    ELSE IF p.pollCount >= MaxPolls THEN [p EXCEPT !.pc = "done", !.outcome = "timed_out"]
    ELSE p

PopupPoll(popupRequestId) ==
    /\ Has(popupPoller, popupRequestId)
    /\ popupPoller[popupRequestId].pc = "sleep"
    /\ LET p == [popupPoller[popupRequestId] EXCEPT !.pollCount = @ + 1]
           found == getPopupRequestFound(popupRequests, popupRequestId, now)
           status == IF found THEN popupRequests[popupRequestId].status ELSE "none" IN
       /\ popupRequests' = getPopupRequestStore(popupRequests, popupRequestId, now)
       /\ popupPoller' = [popupPoller EXCEPT ![popupRequestId] =
                             PopupPollerAfterPoll(p, found, status)]
       /\ resp' = Resp("getPopupRequest", IF found THEN 200 ELSE 404,
                       IF found THEN status ELSE "null")
    /\ UNCHANGED <<callVars, streamVars, pollLoop, cartVars, cibaRequests, now, carts, popupSeq, cibaVars>>

(***************************************************************************)
(* ciba-storage, in-memory revision (part_004): the Record cibaRequests.   *)
(* Each operation is the Record it leaves.                                 *)
(***************************************************************************)
memCreateCibaRequest(requests, authReqId, userId, cartData, t) ==
    Put(requests, authReqId,
        [authReqId |-> authReqId, userId |-> userId, cartData |-> cartData,
         status |-> "pending", createdAt |-> t, expiresAt |-> t + TTL])

\* getCibaRequest marks the request it returns as expired once t > expiresAt.
memGetCibaRequest(requests, authReqId, t) ==
    IF Has(requests, authReqId) /\ t > requests[authReqId].expiresAt
    THEN [requests EXCEPT ![authReqId].status = "expired"]
    ELSE requests

\* updateCibaRequestStatus: the boolean it returns ...
updateCibaRequestStatusOk(requests, authReqId, t) ==
    Has(requests, authReqId) /\ ~(t > requests[authReqId].expiresAt)

\* A variant that also ends the validity of the request it decides.
updateCibaRequestStatusClosing(requests, authReqId, status, t) ==
    IF ~Has(requests, authReqId) THEN requests
    ELSE IF t > requests[authReqId].expiresAt
    THEN [requests EXCEPT ![authReqId].status = "expired"]
    ELSE [requests EXCEPT ![authReqId].status = status,
                          ![authReqId].expiresAt = t]

\* ... and the Record it leaves.
updateCibaRequestStatus(requests, authReqId, status, t) ==
    IF ~Has(requests, authReqId) THEN requests
    ELSE IF t > requests[authReqId].expiresAt
    THEN [requests EXCEPT ![authReqId].status = "expired"]
    ELSE [requests EXCEPT ![authReqId].status = status]

memDeleteCibaRequest(requests, authReqId) == Remove(requests, authReqId)

\* The setInterval callback: every expired request is deleted.
cleanupExpired(requests, t) ==
    [id \in {j \in DOMAIN requests : ~(t > requests[j].expiresAt)} |-> requests[id]]

(***************************************************************************)
(* The routes written against the in-memory revision.                      *)
(***************************************************************************)
\* async_checkout (part_009) creating the request in the in-memory store.
MemAsyncCheckout(user) ==
    LET cartData == getCartWithProducts(carts, user)
        authReqId == authReqSeq + 1 IN
    /\ user # NoUser
    /\ Len(cartData.items) # 0
    /\ authReqSeq < MaxReqs
    /\ authReqSeq' = authReqId
    /\ cibaRequests' = memCreateCibaRequest(cibaRequests, authReqId, user, cartData, now)
    /\ resp' = Resp("async_checkout", 200, "requiresAuth")
    /\ UNCHANGED <<callVars, streamVars, pollLoop, cartVars, now, carts, cibaFile, popupVars, completed, inflight, poller,
                   decideLog>>

\* /api/ciba-token POST, second handler of part_011: it reads no session.
MemCibaTokenPOST(requests, authReqId, t) ==
    LET read == memGetCibaRequest(requests, authReqId, t) IN
    IF authReqId = NoId
    THEN [code |-> 400, body |-> "authReqId is required", requests |-> requests]
    ELSE IF ~Has(requests, authReqId)
    THEN [code |-> 404, body |-> "Authorization request not found",
          requests |-> requests]
    ELSE CASE read[authReqId].status = "expired" ->
                [code |-> 408, body |-> "Authorization request expired",
                 requests |-> read]
           [] read[authReqId].status = "approved" ->
                [code |-> 200, body |-> "approved", requests |-> read]
           [] read[authReqId].status = "denied" ->
                [code |-> 403, body |-> "access_denied",
                 requests |-> memDeleteCibaRequest(read, authReqId)]
           [] OTHER ->
                [code |-> 200, body |-> "authorization_pending", requests |-> read]

\* The handler reads no session: the caller, user, is never looked at.
MemPollToken(user, authReqId) ==
    LET r == MemCibaTokenPOST(cibaRequests, authReqId, now) IN
    /\ cibaRequests' = r.requests
    /\ resp' = Resp("ciba-token.POST", r.code, r.body)
    /\ UNCHANGED <<callVars, streamVars, pollLoop, cartVars, now, carts, cibaFile, authReqSeq, popupVars, completed, inflight,
                   poller, decideLog>>

\* A decision written with updateCibaRequestStatus.
MemDecide(authReqId, action) ==
    /\ cibaRequests' = updateCibaRequestStatus(cibaRequests, authReqId,
                                               StatusOf(action), now)
    /\ resp' = Resp("updateCibaRequestStatus",
                    IF updateCibaRequestStatusOk(cibaRequests, authReqId, now)
                    THEN 200 ELSE 400, action)
    /\ UNCHANGED <<callVars, streamVars, pollLoop, cartVars, now, carts, cibaFile, authReqSeq, popupVars, completed, inflight,
                   poller, decideLog>>

\* /api/checkout POST of part_009: no await lies between its read of the
\* request and deleteCibaRequest.
MemCheckoutPOST(requests, cs, user, authReqId, t) ==
    LET read == memGetCibaRequest(requests, authReqId, t)
        none == [code |-> 0, body |-> "", requests |-> read, carts |-> cs,
                 order |-> NoOrder]
    IN
    IF user = NoUser
    THEN [none EXCEPT !.code = 401, !.body = "Authentication required",
                      !.requests = requests]
    ELSE IF authReqId = NoId
    THEN [none EXCEPT !.code = 400, !.body = "authReqId is required",
                      !.requests = requests]
    ELSE IF ~Has(requests, authReqId)
    THEN [none EXCEPT !.code = 404, !.body = "Authorization request not found"]
    ELSE IF read[authReqId].userId # user
    THEN [none EXCEPT !.code = 403, !.body = "Unauthorized"]
    ELSE IF read[authReqId].status # "approved"
    THEN [none EXCEPT !.code = 403, !.body = "Authorization not approved"]
    ELSE [none EXCEPT !.code = 200, !.body = "success",
            !.carts = clearCart(cs, user),
            !.requests = memDeleteCibaRequest(read, authReqId),
            !.order = [authReqId |-> authReqId, userId |-> user,
                       total |-> read[authReqId].cartData.total,
                       status |-> read[authReqId].status,
                       expired |-> t > requests[authReqId].expiresAt,
                       afterDeny |-> FALSE]]

MemCheckout(user, authReqId) ==
    LET r == MemCheckoutPOST(cibaRequests, carts, user, authReqId, now) IN
    /\ cibaRequests' = r.requests
    /\ carts' = r.carts
    /\ completed' = IF r.code = 200
                    THEN [completed EXCEPT ![authReqId] = @ + 1]
                    ELSE completed
    /\ resp' = IF r.code = 200 THEN OrderResp(r.order)
               ELSE Resp("checkout.POST", r.code, r.body)
    /\ UNCHANGED <<callVars, streamVars, pollLoop, cartVars, now, cibaFile, authReqSeq, popupVars, inflight, poller, decideLog>>

MemSweep ==
    /\ cibaRequests' = cleanupExpired(cibaRequests, now)
    /\ cibaRequests' # cibaRequests
    /\ resp' = NoResp
    /\ UNCHANGED <<callVars, streamVars, pollLoop, cartVars, now, carts, cibaFile, authReqSeq, popupVars, completed, inflight,
                   poller, decideLog>>

(***************************************************************************)
(* The chat stream handler and the authorization waits it starts.          *)
(*                                                                         *)
(* Four revisions of the handler are in the repository: "chat"             *)
(* (src/src/app/api/chat/route.ts, Auth0 CIBA poller and popup poller),    *)
(* "part_007" (poller of /api/ciba-checkout), "part_009" (poller of        *)
(* /api/ciba-token) and "chat_ai" (src/src/app/api/chat-ai/route.ts, a     *)
(* completion deferred with setTimeout).  All waits of one stream share    *)
(* the stream's controller.  controller.enqueue and controller.close       *)
(* throw a TypeError on a closed controller.                               *)
(***************************************************************************)
Revisions == {"chat", "part_007", "part_009", "chat_ai"}

WaitIds == 1..MaxWaits

KindsOf(rev) ==
    CASE rev = "chat" -> {"ciba", "popup"}
      [] rev = "part_007" -> {"ciba"}
      [] rev = "part_009" -> {"ciba"}
      [] OTHER -> {"deferred"}

\* the responses a wait of this revision and kind can read at one attempt
ResultsOf(rev, kind) ==
    CASE kind = "popup" -> {"null", "completed", "failed", "pending"}
      [] kind = "deferred" -> {"ok", "fail"}
      [] rev = "chat" ->
            {"approved", "approved_fail", "authorization_pending", "slow_down",
             "access_denied", "expired_token", "unknown", "throws"}
      [] rev = "part_007" ->
            {"auth_error", "approved", "denied", "expired", "slow_down",
             "pending", "other", "throws"}
      [] OTHER ->
            {"404", "403", "408", "http_other", "approved_ok", "approved_fail",
             "denied", "pending", "unknown", "throws"}

NoStream ==
    [rev |-> "none", pc |-> "idle", hasAsyncOperation |-> FALSE,
     closed |-> FALSE, closeCalls |-> 0]

\* the answers by which the backend rejects the poll itself: an unknown
\* token error (unauthorized_client, invalid_grant, ...) in chat/route.ts,
\* a 401/403 or configuration issue in part_007, a non-OK status other than
\* 404, 403 and 408 in part_009
RejectedBy(rev) ==
    CASE rev = "chat" -> {"unknown"}
      [] rev = "part_007" -> {"auth_error"}
      [] rev = "part_009" -> {"http_other"}
      [] OTHER -> {}

\* rejected is history, kept by WaitPoll: the number of polls in a row, up
\* to the last one, that the backend rejected, counted up to MaxAuthErrors;
\* no poller reads it
NewWait(kind) ==
    [kind |-> kind, pc |-> "polling", attempts |-> 0, errors |-> 0,
     updates |-> 0, terminal |-> 0, late |-> FALSE, outcome |-> "none",
     rejected |-> 0]

\* controller.close()
close(s) == [s EXCEPT !.closed = TRUE, !.closeCalls = @ + 1]

FinallyClosesAlways(rev, hasAsync) == TRUE

\* A variant whose finally block leaves the stream to the pollers.
FinallyClosesNever(rev, hasAsync) == FALSE

FinallyCloses(rev, hasAsync) == IF rev = "chat_ai" THEN TRUE ELSE ~hasAsync

\* the handler's finally block, after which start() has returned
Finally(s) ==
    [(IF FinallyCloses(s.rev, s.hasAsyncOperation) THEN close(s) ELSE s)
        EXCEPT !.pc = "returned"]

\* a terminal branch of a poller on an open stream: enqueue, close, return
Emit(s, wt, outcome) ==
    [stream |-> close(s),
     wait |-> [wt EXCEPT !.pc = "done", !.terminal = @ + 1, !.outcome = outcome]]

\* the poller goes on to its next attempt
Continue(s, wt) == [stream |-> s, wait |-> wt]

\* an enqueue on the closed stream threw and nothing caught it, or the
\* poller returned from its catch: the wait ends without a terminal event
Stop(s, wt, outcome) ==
    [stream |-> s,
     wait |-> [wt EXCEPT !.pc = "done", !.late = TRUE, !.outcome = outcome]]

(* pollForCompletion of chat/route.ts *)
Auth0Outcome(result) ==
    CASE result = "approved" -> "success"
      [] result = "approved_fail" -> "error"
      [] result = "access_denied" -> "denied"
      [] result = "expired_token" -> "expired"
      [] OTHER -> "none"

pollForCompletion(s, wt, result) ==
    LET w1 == [wt EXCEPT !.attempts = @ + 1]
        out == Auth0Outcome(result)
        \* the enqueue threw inside the try: catch (tokenError) continues
        w2 == IF out # "none" /\ s.closed THEN [w1 EXCEPT !.late = TRUE] ELSE w1
    IN  IF out # "none" /\ ~s.closed
        THEN Emit(s, w1, out)
        ELSE IF w2.attempts < MaxAttempts
             THEN Continue(s, w2)
             ELSE IF s.closed THEN Stop(s, w2, "crashed")
                  ELSE Emit(s, w2, "timeout")

(* pollPopupStatus of chat/route.ts *)
PopupOutcome(result, pollCount) ==
    CASE result = "null" -> "expired"
      [] result = "completed" -> "success"
      [] result = "failed" -> "error"
      [] pollCount >= MaxPolls -> "timeout"
      [] OTHER -> "none"

pollPopupStatus(s, wt, result) ==
    LET w1 == [wt EXCEPT !.attempts = @ + 1]
        out == PopupOutcome(result, w1.attempts)
        w2 == [w1 EXCEPT !.errors = @ + 1, !.late = TRUE]
    IN  IF out = "none" THEN Continue(s, w1)
        ELSE IF ~s.closed THEN Emit(s, w1, out)
        ELSE IF w2.errors >= MaxAuthErrors THEN Stop(s, w2, "crashed")
        ELSE Continue(s, w2)

(* pollForCibaCompletion of part_007 *)
CibaOutcome(result, errors) ==
    CASE result = "auth_error" -> IF errors >= MaxAuthErrors THEN "error" ELSE "none"
      [] result = "approved" -> "success"
      [] result = "denied" -> "denied"
      [] result = "expired" -> "expired"
      [] result = "other" -> "error"
      [] OTHER -> "none"

pollForCibaCompletion(s, wt, result) ==
    LET w1 == [wt EXCEPT !.attempts = @ + 1,
                         !.errors = IF result = "auth_error" THEN @ + 1
                                    ELSE IF result = "throws" THEN @ ELSE 0]
        out == CibaOutcome(result, w1.errors)
        last == w1.attempts >= MaxAttempts
        \* the message after the loop is enqueued and the function returns
        exhausted == [stream |-> s,
                      wait |-> [w1 EXCEPT !.pc = "done", !.terminal = @ + 1,
                                          !.outcome = "timeout"]]
    IN  IF result = "throws" \/ (out # "none" /\ s.closed)
        THEN \* catch (pollError)
             IF last
             THEN IF s.closed THEN Stop(s, w1, "crashed") ELSE Emit(s, w1, "timeout")
             ELSE Continue(s, IF result = "throws" THEN w1
                              ELSE [w1 EXCEPT !.late = TRUE])
        ELSE IF out # "none" THEN Emit(s, w1, out)
        ELSE IF ~last THEN Continue(s, w1)
        ELSE IF s.closed THEN Stop(s, w1, "crashed")
        ELSE exhausted

(* pollForAuthorization of part_009 *)
AuthorizationOutcome(result) ==
    CASE result = "404" -> "expired"
      [] result = "403" -> "denied"
      [] result = "408" -> "timeout"
      [] result = "approved_ok" -> "success"
      [] result = "approved_fail" -> "error"
      [] result = "denied" -> "denied"
      [] result = "unknown" -> "error"
      [] result = "throws" -> "error"
      [] OTHER -> "none"

\* a variant that reports its progress at every pending poll
ProgressDueAlways(attempts) == TRUE

\* if (attempts % 30 === 0)
ProgressDue(attempts) == attempts % ProgressEvery = 0

\* updates counts the 'Still waiting for authorization...' messages enqueued
pollForAuthorization(s, wt, result) ==
    LET w1 == [wt EXCEPT !.attempts = @ + 1]
        out == AuthorizationOutcome(result)
        update == result = "pending" /\ ProgressDue(w1.attempts)
        w2 == IF update THEN [w1 EXCEPT !.updates = @ + 1] ELSE w1
    IN  IF out # "none"
        THEN IF s.closed THEN Stop(s, w1, "aborted") ELSE Emit(s, w1, out)
        ELSE IF update /\ s.closed THEN Stop(s, w1, "aborted")
        ELSE IF w2.attempts < MaxAuthorizationAttempts THEN Continue(s, w2)
        ELSE IF s.closed THEN Stop(s, w2, "aborted")
        ELSE Emit(s, w2, "timeout")

(* the setTimeout callback of chat-ai/route.ts: its messages are enqueued, *)
(* the stream is left to the finally block                                 *)
deferredCompletion(s, wt, result) ==
    IF s.closed THEN Stop(s, wt, "crashed")
    ELSE [stream |-> s,
          wait |-> [wt EXCEPT !.pc = "done", !.terminal = @ + 1,
                              !.outcome = IF result = "ok" THEN "success"
                                          ELSE "error"]]

PollStep(s, wt, result) ==
    CASE wt.kind = "popup" -> pollPopupStatus(s, wt, result)
      [] wt.kind = "deferred" -> deferredCompletion(s, wt, result)
      [] s.rev = "chat" -> pollForCompletion(s, wt, result)
      [] s.rev = "part_007" -> pollForCibaCompletion(s, wt, result)
      [] OTHER -> pollForAuthorization(s, wt, result)

otherVars ==
    <<now, carts, cibaFile, cibaRequests, authReqSeq, popupRequests, popupSeq,
      popupPoller, completed, inflight, poller, decideLog, resp, cartVars,
      pollLoop, callVars>>

\* POST /api/chat: the ReadableStream's start(controller) begins
StreamStart(rev) ==
    /\ stream.pc = "idle"
    /\ stream' = [NoStream EXCEPT !.rev = rev, !.pc = "loop"]
    /\ UNCHANGED <<waits, otherVars>>

\* a content chunk, or the message of a tool that starts no wait
StreamContent ==
    /\ stream.pc = "loop"
    /\ stream' = IF stream.closed THEN Finally(stream) ELSE stream
    /\ UNCHANGED <<waits, otherVars>>

\* a checkout tool call that starts an authorization wait
StreamTool(kind) ==
    /\ stream.pc = "loop"
    /\ kind \in KindsOf(stream.rev)
    /\ Cardinality(DOMAIN waits) < MaxWaits
    /\ LET flagged == [stream EXCEPT !.hasAsyncOperation =
                            IF stream.rev = "chat_ai" THEN @ ELSE TRUE]
       IN  IF stream.closed
           THEN /\ stream' = Finally(IF stream.rev = "chat" /\ kind = "ciba"
                                     THEN flagged ELSE stream)
                /\ UNCHANGED waits
           ELSE /\ stream' = flagged
                /\ waits' = Put(waits, Cardinality(DOMAIN waits) + 1, NewWait(kind))
    /\ UNCHANGED otherVars

\* async_checkout of chat/route.ts when the interrupt carries no auth_req_id
StreamNoAuthReqId ==
    /\ stream.pc = "loop"
    /\ stream.rev = "chat"
    /\ LET flagged == [stream EXCEPT !.hasAsyncOperation = TRUE]
       IN  stream' = Finally(IF stream.closed THEN flagged ELSE close(flagged))
    /\ UNCHANGED <<waits, otherVars>>

\* the model's response stream ends: the finally block runs
StreamFinish ==
    /\ stream.pc = "loop"
    /\ stream' = Finally(stream)
    /\ UNCHANGED <<waits, otherVars>>

\* one attempt of a wait
WaitPoll(w, result) ==
    /\ Has(waits, w)
    /\ waits[w].pc = "polling"
    /\ result \in ResultsOf(stream.rev, waits[w].kind)
    /\ LET r == PollStep(stream, waits[w], result)
           rejected == IF result \notin RejectedBy(stream.rev) THEN 0
                       ELSE IF waits[w].rejected < MaxAuthErrors
                            THEN waits[w].rejected + 1 ELSE MaxAuthErrors
       IN  /\ stream' = r.stream
           /\ waits' = [waits EXCEPT ![w] = [r.wait EXCEPT !.rejected = rejected]]
    /\ UNCHANGED otherVars

AllResults ==
    UNION {ResultsOf(rev, kind) : rev \in Revisions, kind \in {"ciba", "popup", "deferred"}}

(***************************************************************************)
(* The store functions called on their own, with any id: what each returns *)
(* and the store it leaves.  resp holds the returned value: 200 for a      *)
(* record or true, 404 for undefined, null or false.                       *)
(***************************************************************************)
Returned(op, found, body) == Resp(op, IF found THEN 200 ELSE 404, body)

\* The payload the direct calls store: getCartWithProducts of a cart of one
\* item.
CartData == [items |-> <<[productId |-> "1", quantity |-> 1]>>, total |-> 399]

\* ciba-storage.ts
CallCreateCibaRequest(userId) ==
    /\ authReqSeq < MaxReqs
    /\ authReqSeq' = authReqSeq + 1
    /\ cibaFile' = createCibaRequest(cibaFile, authReqSeq + 1, userId, CartData, now)
    /\ resp' = Returned("createCibaRequest", TRUE, "")
    /\ UNCHANGED <<callVars, streamVars, pollLoop, cartVars, cibaRequests, now, carts, popupVars, completed, inflight,
                   poller, decideLog>>

CallGetCibaRequest(authReqId) ==
    /\ resp' = Returned("getCibaRequest", Has(cibaFile, authReqId),
                        IF Has(cibaFile, authReqId)
                        THEN getCibaRequest(cibaFile, authReqId).status
                        ELSE "undefined")
    /\ UNCHANGED <<callVars, streamVars, pollLoop, cartVars, cibaRequests, now, carts, cibaFile, authReqSeq,
                   popupVars, completed, inflight, poller, decideLog>>

CallUpdateCibaRequest(authReqId, status) ==
    /\ cibaFile' = updateCibaRequest(cibaFile, authReqId, status)
    /\ resp' = Returned("updateCibaRequest", Has(cibaFile, authReqId), status)
    /\ UNCHANGED <<callVars, streamVars, pollLoop, cartVars, cibaRequests, now, carts, authReqSeq, popupVars,
                   completed, inflight, poller, decideLog>>

CallDeleteCibaRequest(authReqId) ==
    /\ cibaFile' = deleteCibaRequest(cibaFile, authReqId)
    /\ resp' = Returned("deleteCibaRequest", Has(cibaFile, authReqId), "")
    /\ UNCHANGED <<callVars, streamVars, pollLoop, cartVars, cibaRequests, now, carts, authReqSeq, popupVars,
                   completed, inflight, poller, decideLog>>

\* popup-storage.ts
CallStorePopupRequest(userId, d) ==
    /\ popupSeq < MaxPopups
    /\ popupSeq' = popupSeq + 1
    /\ popupRequests' = storePopupRequest(popupRequests, popupSeq + 1, userId, CartData,
                                          now, now + d)
    /\ resp' = Returned("storePopupRequest", TRUE, "")
    /\ UNCHANGED <<callVars, streamVars, pollLoop, cartVars, cibaRequests, now, carts, popupPoller, cibaVars>>

CallGetPopupRequest(id) ==
    /\ popupRequests' = getPopupRequestStore(popupRequests, id, now)
    /\ resp' = Returned("getPopupRequest", getPopupRequestFound(popupRequests, id, now),
                        IF getPopupRequestFound(popupRequests, id, now)
                        THEN popupRequests[id].status ELSE "null")
    /\ UNCHANGED <<callVars, streamVars, pollLoop, cartVars, cibaRequests, now, carts, popupSeq, popupPoller,
                   cibaVars>>

CallUpdatePopupRequest(id, status, result, error) ==
    /\ popupRequests' = updatePopupRequest(popupRequests, id, status, result, error)
    /\ resp' = Returned("updatePopupRequest", Has(popupRequests, id), status)
    /\ UNCHANGED <<callVars, streamVars, pollLoop, cartVars, cibaRequests, now, carts, popupSeq, popupPoller,
                   cibaVars>>

\* part_004
CallMemCreateCibaRequest(userId) ==
    /\ authReqSeq < MaxReqs
    /\ authReqSeq' = authReqSeq + 1
    /\ cibaRequests' = memCreateCibaRequest(cibaRequests, authReqSeq + 1, userId,
                                            CartData, now)
    /\ resp' = Returned("createCibaRequest", TRUE, "")
    /\ UNCHANGED <<callVars, streamVars, pollLoop, cartVars, now, carts, cibaFile, popupVars, completed, inflight,
                   poller, decideLog>>

CallMemGetCibaRequest(authReqId) ==
    /\ cibaRequests' = memGetCibaRequest(cibaRequests, authReqId, now)
    /\ resp' = Returned("getCibaRequest", Has(cibaRequests, authReqId),
                        IF Has(cibaRequests, authReqId)
                        THEN cibaRequests'[authReqId].status ELSE "null")
    /\ UNCHANGED <<callVars, streamVars, pollLoop, cartVars, now, carts, cibaFile, authReqSeq, popupVars,
                   completed, inflight, poller, decideLog>>

CallMemDeleteCibaRequest(authReqId) ==
    /\ cibaRequests' = memDeleteCibaRequest(cibaRequests, authReqId)
    /\ resp' = Resp("deleteCibaRequest", 200, "")
    /\ UNCHANGED <<callVars, streamVars, pollLoop, cartVars, now, carts, cibaFile, authReqSeq, popupVars,
                   completed, inflight, poller, decideLog>>

\* the values a caller passes as result and as error
Results == {NoResult, [success |-> TRUE, itemCount |-> 1, total |-> 399]}

Errors == {"", "Payment declined"}

(***************************************************************************)
(* The binding message and the /authorize page (in-memory revision).       *)
(***************************************************************************)
\* async_checkout's binding message, `Checkout for N item(s), Total: $T`:
\* the text carries the item count and the total (cents, so toFixed(2) is
\* exact) and nothing else.
bindingMessage(cartData) ==
    [itemCount |-> Len(cartData.items), total |-> cartData.total]

\* binding_message absent from the URL (searchParams.get returns null).
NoMessage == [itemCount |-> 0, total |-> 0]

\* The values the binding_message query parameter is drawn from.
Messages == {NoMessage, [itemCount |-> 1, total |-> 399],
             [itemCount |-> 2, total |-> 648]}

\* /authorize GET: the page it answers with and the message on that page.
\* The message is the binding_message query parameter; the stored request
\* decides only which page is shown.
AuthorizeGET(requests, user, authReqId, binding_message, t) ==
    LET read == memGetCibaRequest(requests, authReqId, t)
        page(code, title) == [code |-> code, body |-> title,
                              message |-> NoMessage, requests |-> read] IN
    IF user = NoUser
    THEN [code |-> 307, body |-> "/api/auth/login", message |-> NoMessage,
          requests |-> requests]
    ELSE IF authReqId = NoId
    THEN [code |-> 200, body |-> "Authorization Error", message |-> NoMessage,
          requests |-> requests]
    ELSE IF ~Has(requests, authReqId)
    THEN page(200, "Authorization Request Not Found")
    ELSE IF read[authReqId].status = "expired"
    THEN page(200, "Authorization Expired")
    ELSE IF read[authReqId].status # "pending"
    THEN page(200, "Already Processed")
    ELSE IF read[authReqId].userId # user
    THEN page(200, "Unauthorized")
    ELSE [code |-> 200, body |-> "Authorize Checkout",
          message |-> binding_message, requests |-> read]

OpenAuthorize(user, authReqId, binding_message) ==
    LET r == AuthorizeGET(cibaRequests, user, authReqId, binding_message, now) IN
    /\ cibaRequests' = r.requests
    /\ resp' = [op |-> "authorize.GET", code |-> r.code, body |-> r.body,
                order |-> NoOrder, message |-> r.message]
    /\ UNCHANGED <<callVars, streamVars, pollLoop, cartVars, now, carts, cibaFile, authReqSeq, popupVars, completed,
                   inflight, poller, decideLog>>

(***************************************************************************)
(* cart-storage.ts: CartStorage.  In development the carts are one JSON    *)
(* file (cartFile, an array of carts); in production every cart is a blob  *)
(* named cart-<userId>.json (cartBlobs, pathname -> cart).  A user id and  *)
(* a pathname are sequences of characters.                                 *)
(***************************************************************************)
CartUserIds == {<<"u", "1">>, <<"u", "1", "2">>, <<"v">>}

CartItems == {<<>>, <<[productId |-> "1", quantity |-> 2]>>}

CartValues == [userId : CartUserIds, items : CartItems]

\* null
NoCart == [userId |-> <<>>, items |-> <<>>]

\* `cart-${userId}` and `cart-${userId}.json`
cartPrefix(userId) == <<"c", "a", "r", "t", "-">> \o userId

cartKey(userId) == cartPrefix(userId) \o <<".", "j", "s", "o", "n">>

IsPrefix(p, s) == Len(p) <= Len(s) /\ SubSeq(s, 1, Len(p)) = p

\* list({ prefix }): the pathnames that start with the prefix.
list(blobs, prefix) == {k \in DOMAIN blobs : IsPrefix(prefix, k)}

\* carts.find(cart => cart.userId === userId) || null
FindCart(file, userId) ==
    LET hits == {i \in 1..Len(file) : file[i].userId = userId} IN
    IF hits = {} THEN NoCart
    ELSE file[CHOOSE i \in hits : \A j \in hits : i <= j]

\* getUserCart: the carts the call can return.  In production it returns the
\* cart of blobs[0]; the order of the listing is the blob service's.
getUserCart(file, blobs, isProduction, userId) ==
    IF isProduction
    THEN IF list(blobs, cartPrefix(userId)) = {} THEN {NoCart}
         ELSE {blobs[k] : k \in list(blobs, cartPrefix(userId))}
    ELSE {FindCart(file, userId)}

\* saveUserCart, development: the first cart of the user is replaced, or the
\* cart is pushed.
saveUserCartFile(file, cart) ==
    LET hits == {i \in 1..Len(file) : file[i].userId = cart.userId} IN
    IF hits = {} THEN Append(file, cart)
    ELSE [file EXCEPT ![CHOOSE i \in hits : \A j \in hits : i <= j] = cart]

\* saveUserCart, production: put(cartKey, ..., allowOverwrite).
saveUserCartBlob(blobs, cart) == Put(blobs, cartKey(cart.userId), cart)

\* deleteUserCart, development: carts.filter(c => c.userId !== userId).
deleteUserCartFile(file, userId) ==
    SelectSeq(file, LAMBDA c : c.userId # userId)

\* deleteUserCart, production: every listed blob is deleted.
deleteUserCartBlob(blobs, userId) ==
    [k \in DOMAIN blobs \ list(blobs, cartPrefix(userId)) |-> blobs[k]]

CartResp(op, cart) ==
    [op |-> op, code |-> 200, body |-> "", order |-> NoOrder, cart |-> cart]

SaveUserCart(isProduction, cart) ==
    /\ cartFile' = IF isProduction THEN cartFile ELSE saveUserCartFile(cartFile, cart)
    /\ cartBlobs' = IF isProduction THEN saveUserCartBlob(cartBlobs, cart) ELSE cartBlobs
    /\ resp' = CartResp("saveUserCart", cart)
    /\ UNCHANGED <<callVars, streamVars, pollLoop, now, carts, cibaRequests, popupVars, cibaVars>>

GetUserCart(isProduction, userId) ==
    /\ \E cart \in getUserCart(cartFile, cartBlobs, isProduction, userId) :
            resp' = CartResp("getUserCart", cart)
    /\ UNCHANGED <<callVars, streamVars, pollLoop, cartVars, now, carts, cibaRequests, popupVars, cibaVars>>

DeleteUserCart(isProduction, userId) ==
    /\ cartFile' = IF isProduction THEN cartFile
                   ELSE deleteUserCartFile(cartFile, userId)
    /\ cartBlobs' = IF isProduction THEN deleteUserCartBlob(cartBlobs, userId)
                    ELSE cartBlobs
    /\ resp' = CartResp("deleteUserCart", NoCart)
    /\ UNCHANGED <<callVars, streamVars, pollLoop, now, carts, cibaRequests, popupVars, cibaVars>>

\* clearUserCart: getUserCart, then saveUserCart of the cart it returned
\* with its items emptied.
ClearUserCart(isProduction, userId) ==
    /\ \E cart \in getUserCart(cartFile, cartBlobs, isProduction, userId) :
         LET cleared == [cart EXCEPT !.items = <<>>] IN
         IF cart = NoCart
         THEN UNCHANGED cartVars
         ELSE /\ cartFile' = IF isProduction THEN cartFile
                             ELSE saveUserCartFile(cartFile, cleared)
              /\ cartBlobs' = IF isProduction THEN saveUserCartBlob(cartBlobs, cleared)
                              ELSE cartBlobs
    /\ resp' = CartResp("clearUserCart", NoCart)
    /\ UNCHANGED <<callVars, streamVars, pollLoop, now, carts, cibaRequests, popupVars, cibaVars>>

(***************************************************************************)
(* The token polling loops and their wait intervals: pollForCompletion     *)
(* (chat/route.ts), pollForCibaCompletion (part_007) and                   *)
(* waitForCibaCompletion (auth0-ciba.ts).  Times are in sixteenths of a    *)
(* second, in which every interval the loops compute below the cap is a    *)
(* whole number (5 s, 7.5 s, 11.25 s, 16.875 s, 25.3125 s).                *)
(***************************************************************************)
PollFns == {"pollForCompletion", "pollForCibaCompletion", "waitForCibaCompletion"}

\* "throws" is a poll call that fails (the fetch rejects, the body is not
\* JSON), the other values are the token endpoint's answers
TokenResponses == {"approved", "authorization_pending", "slow_down", "access_denied",
                   "expired_token", "other", "throws"}

Sec(n) == n * 16

\* let slowDownDelay = 5 / interval = 5000
StartInterval == Sec(5)

\* Math.min(slowDownDelay * 1.5, 30)
SlowDown(slowDownDelay) ==
    IF (slowDownDelay * 3) \div 2 < Sec(30) THEN (slowDownDelay * 3) \div 2 ELSE Sec(30)

\* swallowed is history: the failed polls waitForCibaCompletion's catch has
\* retried
NoLoop == [fn |-> "none", pc |-> "idle", attempts |-> 0, interval |-> 0,
           lastSleep |-> 0, sleeps |-> 0, outcome |-> "none", swallowed |-> 0]

NewLoop(fn) == [NoLoop EXCEPT !.fn = fn, !.pc = "polling", !.interval = StartInterval]

\* The loop has slept for ms.
Slept(l, ms) == [l EXCEPT !.lastSleep = ms, !.sleeps = @ + 1]

\* The loop returns with an outcome.
Return(l, outcome) == [l EXCEPT !.pc = "done", !.outcome = outcome]

\* `continue`, and the loop's exit when no attempt is left.
Again(l) == IF l.attempts < MaxLoopAttempts THEN l ELSE Return(l, "timeout")

\* One iteration of pollForCompletion / pollForCibaCompletion: the sleep of
\* slowDownDelay seconds, attempts++, the poll and the branch on its answer.
\* pollForCompletion continues on an unknown error, pollForCibaCompletion
\* reports it; the catch of both goes on to the next attempt.
ChatLoopStep(l, response) ==
    LET polled == [Slept(l, l.interval) EXCEPT !.attempts = @ + 1] IN
    CASE response = "approved" -> Return(polled, "success")
      [] response = "access_denied" -> Return(polled, "denied")
      [] response = "expired_token" -> Return(polled, "expired")
      [] response = "authorization_pending" -> Again(polled)
      [] response = "slow_down" ->
            Again([polled EXCEPT !.interval = SlowDown(polled.interval)])
      [] response = "throws" -> Again(polled)
      [] OTHER -> IF l.fn = "pollForCompletion" THEN Again(polled)
                  ELSE Return(polled, "error")

\* catch (error) of waitForCibaCompletion: the error is thrown to the caller
\* on the last attempt, else the loop sleeps and polls again.
RethrowAlways(l) == Return(l, "thrown")

Rethrow(l) ==
    IF l.attempts >= MaxLoopAttempts THEN Return(l, "thrown")
    ELSE Slept([l EXCEPT !.swallowed = @ + 1], l.interval)

\* A variant in which slow_down falls to the branch of the other errors.
WaitLoopStepSlowDownReturns(l, response) ==
    LET polled == [l EXCEPT !.attempts = @ + 1] IN
    CASE response = "approved" -> Return(polled, "success")
      [] response = "authorization_pending" -> Again(Slept(polled, polled.interval))
      [] response = "access_denied" -> Return(polled, "denied")
      [] response = "expired_token" -> Return(polled, "expired")
      [] response = "throws" -> Rethrow(polled)
      [] OTHER -> Return(polled, "error")

\* One iteration of waitForCibaCompletion: attempts++, the poll, the branch
\* on its answer (or the catch) and the sleep that ends the iteration.
WaitLoopStep(l, response) ==
    LET polled == [l EXCEPT !.attempts = @ + 1] IN
    CASE response = "approved" -> Return(polled, "success")
      [] response = "authorization_pending" -> Again(Slept(polled, polled.interval))
      [] response = "slow_down" -> Again(Slept(polled, (polled.interval * 3) \div 2))
      [] response = "access_denied" -> Return(polled, "denied")
      [] response = "expired_token" -> Return(polled, "expired")
      [] response = "throws" -> Rethrow(polled)
      [] OTHER -> Return(polled, "error")

LoopStep(l, response) ==
    IF l.fn = "waitForCibaCompletion" THEN WaitLoopStep(l, response)
    ELSE ChatLoopStep(l, response)

LoopStart(fn) ==
    /\ pollLoop.pc # "polling"
    /\ pollLoop' = NewLoop(fn)
    /\ UNCHANGED <<callVars, streamVars, cartVars, now, carts, cibaRequests, popupVars, cibaVars,
                   resp>>

LoopPoll(response) ==
    /\ pollLoop.pc = "polling"
    /\ pollLoop' = LoopStep(pollLoop, response)
    /\ UNCHANGED <<callVars, streamVars, cartVars, now, carts, cibaRequests, popupVars, cibaVars,
                   resp>>

(***************************************************************************)
(* Time.                                                                   *)
(***************************************************************************)
Tick ==
    /\ now + TickMs <= MaxTicks * TickMs
    /\ now' = now + TickMs
    /\ resp' = NoResp
    /\ UNCHANGED <<callVars, streamVars, pollLoop, cartVars, cibaRequests, carts, cibaFile, authReqSeq, popupVars, completed,
                   inflight, poller, decideLog>>

(***************************************************************************)
(* The file-backed generation.                                             *)
(***************************************************************************)
Init ==
    /\ now = 0
    /\ carts = [u \in Users |-> <<>>]
    /\ cibaFile = EmptyMap
    /\ cibaRequests = EmptyMap
    /\ authReqSeq = 0
    /\ popupRequests = EmptyMap
    /\ popupSeq = 0
    /\ popupPoller = EmptyMap
    /\ completed = [i \in AuthReqIds |-> 0]
    /\ inflight = <<>>
    /\ poller = EmptyMap
    /\ decideLog = [i \in AuthReqIds |-> NoDecision]
    /\ resp = NoResp
    /\ stream = NoStream
    /\ waits = EmptyMap
    /\ cartFile = <<>>
    /\ cartBlobs = EmptyMap
    /\ pollLoop = NoLoop
    /\ storeCalls = EmptyMap
    /\ cartCalls = EmptyMap

NextFile ==
    \/ Tick
    \/ \E u \in Shoppers, p \in ProductInputs : AddToCart(u, p, 1)
    \/ \E u \in Callers : ChatAsyncCheckout(u)
    \/ \E u \in Callers, id \in AuthReqIds \cup {NoId} : PollToken(u, id)
    \/ \E u \in Callers, id \in AuthReqIds, a \in Actions \cup {"other"} :
            DecidePUT(u, id, a)
    \/ \E u \in Callers, id \in AuthReqIds \cup {NoId}, a \in BOOLEAN :
            DecideAuthorize(u, id, a)
    \/ \E u \in Callers, id \in AuthReqIds \cup {NoId} : CheckoutBegin(u, "", id, NoId)
    \/ \E i \in 1..Len(inflight) : CheckoutFinish(i)
    \/ \E id \in AuthReqIds : PollerPoll(id)
    \/ \E id \in AuthReqIds : PollerTimeout(id)
    \/ \E id \in AuthReqIds : PollerCheckout(id)

SpecFile == Init /\ [][NextFile]_vars

(***************************************************************************)
(* The in-memory generation.                                               *)
(***************************************************************************)
NextMem ==
    \/ Tick
    \/ \E u \in Shoppers, p \in ProductInputs : AddToCart(u, p, 1)
    \/ \E u \in Callers : MemAsyncCheckout(u)
    \/ \E u \in Callers, id \in AuthReqIds \cup {NoId} : MemPollToken(u, id)
    \/ \E id \in AuthReqIds, a \in Actions : MemDecide(id, a)
    \/ \E u \in Callers, id \in AuthReqIds \cup {NoId} : MemCheckout(u, id)
    \/ MemSweep

SpecMem == Init /\ [][NextMem]_vars

(***************************************************************************)
(* The in-memory generation's approval page: initiation, the page, the     *)
(* decision and the checkout.                                              *)
(***************************************************************************)
NextAuthorize ==
    \/ Tick
    \/ \E u \in Shoppers, p \in DOMAIN PRODUCTS : AddToCart(u, p, 1)
    \/ \E u \in Users : MemAsyncCheckout(u)
    \/ \E u \in Callers, id \in AuthReqIds \cup {NoId}, m \in Messages :
            OpenAuthorize(u, id, m)
    \/ \E id \in AuthReqIds, a \in Actions : MemDecide(id, a)
    \/ \E u \in Users, id \in AuthReqIds : MemCheckout(u, id)

SpecAuthorize == Init /\ [][NextAuthorize]_vars

(***************************************************************************)
(* The popup authorization: popup_checkout, its poller, and the popup      *)
(* window's completion call.                                               *)
(***************************************************************************)
NextPopup ==
    \/ Tick
    \/ \E u \in Shoppers, p \in DOMAIN PRODUCTS : AddToCart(u, p, 1)
    \/ \E u \in Callers : ChatPopupCheckout(u)
    \/ \E u \in Callers, id \in AuthReqIds \cup {NoId}, pid \in PopupIds \cup {NoId} :
            CheckoutBegin(u, "popup_checkout_complete", id, pid)
    \/ \E i \in 1..Len(inflight) : CheckoutFinish(i)
    \/ \E pid \in PopupIds : PopupPoll(pid)

SpecPopup == Init /\ [][NextPopup]_vars

(***************************************************************************)
(* The popup request's result: the cart, popup_checkout and the popup       *)
(* window's completion call.                                               *)
(***************************************************************************)
NextPopupResult ==
    \/ Tick
    \/ \E u \in Shoppers : AddToCart(u, "1", 1)
    \/ \E u \in Users : ClearCart(u)
    \/ \E u \in Users : ChatPopupCheckout(u)
    \/ \E u \in Users, pid \in PopupIds :
            CheckoutBegin(u, "popup_checkout_complete", NoId, pid)

SpecPopupResult == Init /\ [][NextPopupResult]_vars

(***************************************************************************)
(* CartStorage, in development and in production.                          *)
(***************************************************************************)
NextCart ==
    \/ \E isProduction \in BOOLEAN, cart \in CartValues : SaveUserCart(isProduction, cart)
    \/ \E isProduction \in BOOLEAN, u \in CartUserIds : GetUserCart(isProduction, u)
    \/ \E isProduction \in BOOLEAN, u \in CartUserIds : DeleteUserCart(isProduction, u)
    \/ \E isProduction \in BOOLEAN, u \in CartUserIds : ClearUserCart(isProduction, u)

SpecCart == Init /\ [][NextCart]_vars

(***************************************************************************)
(* The token polling loops against every sequence of token responses.      *)
(***************************************************************************)
NextLoop ==
    \/ \E fn \in PollFns : LoopStart(fn)
    \/ \E response \in TokenResponses : LoopPoll(response)

SpecLoop == Init /\ [][NextLoop]_vars

(***************************************************************************)
(* The chat stream handler with the waits it starts.                       *)
(***************************************************************************)
NextStream ==
    \/ \E rev \in Revisions : StreamStart(rev)
    \/ StreamContent
    \/ \E kind \in {"ciba", "popup", "deferred"} : StreamTool(kind)
    \/ StreamNoAuthReqId
    \/ StreamFinish
    \/ \E w \in WaitIds, result \in AllResults : WaitPoll(w, result)

SpecStream == Init /\ [][NextStream]_vars

\* One stream of the part_009 revision and its pollForAuthorization waits.
NextProgress ==
    \/ StreamStart("part_009")
    \/ StreamTool("ciba")
    \/ StreamFinish
    \/ \E w \in WaitIds : \E result \in ResultsOf("part_009", "ciba") :
          WaitPoll(w, result)

SpecProgress == Init /\ [][NextProgress]_vars

(***************************************************************************)
(* The popup wait on its own: one product, the popup poller, the popup     *)
(* window's completion call and the passing of time.                       *)
(***************************************************************************)
NextPopupWait ==
    \/ Tick
    \/ \E u \in Shoppers : AddToCart(u, "1", 1)
    \/ \E u \in Callers : ChatPopupCheckout(u)
    \/ \E u \in Users, pid \in PopupIds :
            CheckoutBegin(u, "popup_checkout_complete", NoId, pid)
    \/ \E pid \in PopupIds : PopupPoll(pid)

SpecPopupWait == Init /\ [][NextPopupWait]_vars

(***************************************************************************)
(* The checkout tools that initiate an authorization, with their pollers   *)
(* and no decision.                                                        *)
(***************************************************************************)
NextInitiate ==
    \/ \E u \in Shoppers, p \in ProductInputs : AddToCart(u, p, 1)
    \/ \E u \in Callers : ChatAsyncCheckout(u)
    \/ \E u \in Callers : ChatPopupCheckout(u)
    \/ \E id \in AuthReqIds : PollerPoll(id)
    \/ \E id \in AuthReqIds : PollerTimeout(id)
    \/ \E pid \in PopupIds : PopupPoll(pid)

SpecInitiate == Init /\ [][NextInitiate]_vars

(***************************************************************************)
(* The three request stores under direct calls of their functions.         *)
(***************************************************************************)
\* The three stores are exercised one at a time: a request is created in a
\* store only while the other two hold none.
OtherStoresEmpty(store) ==
    \A other \in {cibaFile, cibaRequests, popupRequests} :
        other = store \/ other = EmptyMap

NextStore ==
    \/ Tick
    \/ OtherStoresEmpty(cibaFile) /\ CallCreateCibaRequest("alice")
    \/ \E d \in ClockSkew : OtherStoresEmpty(popupRequests) /\ CallStorePopupRequest("alice", d)
    \/ \E id \in AuthReqIds : CallGetCibaRequest(id)
    \/ \E id \in AuthReqIds, st \in {"approved", "denied"} : CallUpdateCibaRequest(id, st)
    \/ \E id \in AuthReqIds : CallDeleteCibaRequest(id)
    \/ \E id \in AuthReqIds : DecidePUT("alice", id, "approve")
    \/ \E id \in PopupIds : CallGetPopupRequest(id)
    \/ \E id \in PopupIds, r \in Results \ {NoResult} :
            CallUpdatePopupRequest(id, "completed", r, "")
    \/ \E id \in PopupIds, e \in Errors \ {""} :
            CallUpdatePopupRequest(id, "failed", NoResult, e)

SpecStore == Init /\ [][NextStore]_vars

(***************************************************************************)
(* addToCart of part_001, the shopping store written against CartStorage.  *)
(* The function awaits getCart (getUserCart, and a saveUserCart of an      *)
(* empty cart when the user has none), changes the cart it was handed and  *)
(* awaits saveUserCart.  cartCalls holds the calls that have begun, with   *)
(* the cart each one works on.  In production every await is a request to  *)
(* the blob service and the calls of all handlers run in between.  In      *)
(* development CartStorage reads and writes its file synchronously: the    *)
(* awaits of a call resolve without leaving the microtask queue, so a call *)
(* that has resumed finishes before another handler starts one; calls      *)
(* started in the same turn (before any of them has resumed) overlap.      *)
(***************************************************************************)
CallIds == 1..MaxCalls

CartCallers == {<<"v">>, <<"u", "1">>}

MayBegin(calls, isProduction) ==
    \A d \in DOMAIN calls :
        /\ calls[d].isProduction = isProduction
        /\ isProduction \/ calls[d].pc = "done" \/ ~calls[d].resumed

\* await cartStorage.getUserCart(userId) of getCart
AddToCartBegin(c, isProduction, userId, quantity) ==
    /\ ~Has(cartCalls, c)
    /\ MayBegin(cartCalls, isProduction)
    /\ \E cart \in getUserCart(cartFile, cartBlobs, isProduction, userId) :
          cartCalls' = Put(cartCalls, c,
                           [pc |-> IF cart = NoCart THEN "new" ELSE "got",
                            isProduction |-> isProduction, userId |-> userId,
                            quantity |-> quantity, resumed |-> FALSE,
                            cart |-> IF cart = NoCart
                                     THEN [userId |-> userId, items |-> <<>>]
                                     ELSE cart])
    /\ UNCHANGED <<storeCalls, streamVars, pollLoop, cartVars, now, carts, cibaRequests,
                   popupVars, cibaVars, resp>>

\* the user had no cart: await cartStorage.saveUserCart(cart) of getCart
AddToCartNew(c) ==
    /\ Has(cartCalls, c)
    /\ cartCalls[c].pc = "new"
    /\ LET call == cartCalls[c] IN
       /\ cartFile' = IF call.isProduction THEN cartFile
                      ELSE saveUserCartFile(cartFile, call.cart)
       /\ cartBlobs' = IF call.isProduction THEN saveUserCartBlob(cartBlobs, call.cart)
                       ELSE cartBlobs
    /\ cartCalls' = [cartCalls EXCEPT ![c].pc = "got", ![c].resumed = TRUE]
    /\ UNCHANGED <<storeCalls, streamVars, pollLoop, now, carts, cibaRequests,
                   popupVars, cibaVars, resp>>

\* existingItem.quantity += quantity, or the push of the new item, and
\* await cartStorage.saveUserCart(cart); the call returns true
AddToCartSave(c) ==
    /\ Has(cartCalls, c)
    /\ cartCalls[c].pc = "got"
    /\ LET call == cartCalls[c]
           cart == [call.cart EXCEPT
                       !.items = addToCartItems(@, "1", call.quantity)]
       IN  /\ cartFile' = IF call.isProduction THEN cartFile
                          ELSE saveUserCartFile(cartFile, cart)
           /\ cartBlobs' = IF call.isProduction THEN saveUserCartBlob(cartBlobs, cart)
                           ELSE cartBlobs
           /\ cartCalls' = [cartCalls EXCEPT ![c].pc = "done", ![c].cart = cart,
                                             ![c].resumed = TRUE]
           /\ resp' = CartResp("addToCart", cart)
    /\ UNCHANGED <<storeCalls, streamVars, pollLoop, now, carts, cibaRequests,
                   popupVars, cibaVars>>

\* One deployment (development or production) and the addToCart calls of
\* its handlers.
NextAdd ==
    \/ \E c \in CallIds, isProduction \in BOOLEAN, u \in CartCallers, q \in 1..MaxQty :
          AddToCartBegin(c, isProduction, u, q)
    \/ \E c \in CallIds : AddToCartNew(c)
    \/ \E c \in CallIds : AddToCartSave(c)

SpecAdd == Init /\ [][NextAdd]_vars

(***************************************************************************)
(* ciba-storage.ts call by call.  createCibaRequest, updateCibaRequest and *)
(* deleteCibaRequest each load the file into a map of their own, change    *)
(* the map and save it.  They are synchronous functions (readFileSync,     *)
(* writeFileSync, no await), so once one has loaded the file the server    *)
(* runs nothing else until it has saved.  storeCalls holds the calls that  *)
(* have loaded and not yet saved, with the map each one loaded.            *)
(***************************************************************************)
StoredIds == 1..MaxStoredReqs

\* A variant in which the functions await between their load and their save.
RunToCompletionAwaited(calls) == TRUE

\* TRUE when the server may start a step: no synchronous call is under way.
RunToCompletion(calls) == calls = EmptyMap

\* const requests = loadRequests()
StoreLoad(c, fn, authReqId, userId, status) ==
    /\ RunToCompletion(storeCalls)
    /\ ~Has(storeCalls, c)
    /\ storeCalls' = Put(storeCalls, c,
                         [fn |-> fn, authReqId |-> authReqId, userId |-> userId,
                          status |-> status, requests |-> cibaFile])
    /\ UNCHANGED <<cartCalls, streamVars, pollLoop, cartVars, cibaRequests, now, carts,
                   popupVars, cibaVars, resp>>

\* the change of the loaded map and saveRequests(requests); updateCibaRequest
\* and deleteCibaRequest save only when they found the id
StoreSave(c) ==
    /\ Has(storeCalls, c)
    /\ LET call == storeCalls[c]
           found == Has(call.requests, call.authReqId)
           changed ==
               CASE call.fn = "createCibaRequest" ->
                        createCibaRequest(call.requests, call.authReqId, call.userId,
                                          CartData, now)
                 [] call.fn = "updateCibaRequest" ->
                        updateCibaRequest(call.requests, call.authReqId, call.status)
                 [] OTHER -> deleteCibaRequest(call.requests, call.authReqId)
       IN  /\ cibaFile' = IF call.fn = "createCibaRequest" \/ found
                          THEN changed ELSE cibaFile
           /\ resp' = Returned(call.fn, call.fn = "createCibaRequest" \/ found,
                               call.status)
    /\ storeCalls' = Remove(storeCalls, c)
    /\ UNCHANGED <<cartCalls, streamVars, pollLoop, cartVars, cibaRequests, now, carts,
                   authReqSeq, popupVars, completed, inflight, poller, decideLog>>

NextFrame ==
    \/ \E id \in StoredIds : RunToCompletion(storeCalls) /\ CallGetCibaRequest(id)
    \/ \E c \in CallIds, id \in StoredIds, u \in Users :
            StoreLoad(c, "createCibaRequest", id, u, "pending")
    \/ \E c \in CallIds, id \in StoredIds, st \in {"approved", "denied"} :
            StoreLoad(c, "updateCibaRequest", id, NoUser, st)
    \/ \E c \in CallIds, id \in StoredIds :
            StoreLoad(c, "deleteCibaRequest", id, NoUser, "")
    \/ \E c \in CallIds : StoreSave(c)

SpecFrame == Init /\ [][NextFrame]_vars

(***************************************************************************)
(* The transitions of the three stores under direct calls: creation, the   *)
(* status updates, reads, deletion and the sweep.                          *)
(***************************************************************************)
NextTransition ==
    \/ Tick
    \/ OtherStoresEmpty(cibaFile) /\ CallCreateCibaRequest("alice")
    \/ OtherStoresEmpty(cibaRequests) /\ CallMemCreateCibaRequest("alice")
    \/ \E d \in ClockSkew : OtherStoresEmpty(popupRequests) /\ CallStorePopupRequest("alice", d)
    \/ \E id \in AuthReqIds, st \in {"approved", "denied"} : CallUpdateCibaRequest(id, st)
    \/ \E id \in AuthReqIds : CallDeleteCibaRequest(id)
    \/ \E id \in PopupIds : CallGetPopupRequest(id)
    \/ \E id \in PopupIds, st \in {"completed", "failed"}, r \in Results, e \in Errors :
            CallUpdatePopupRequest(id, st, r, e)
    \/ \E id \in AuthReqIds : CallMemGetCibaRequest(id)
    \/ \E id \in AuthReqIds, a \in Actions : MemDecide(id, a)
    \/ \E id \in AuthReqIds : CallMemDeleteCibaRequest(id)
    \/ MemSweep

SpecTransition == Init /\ [][NextTransition]_vars

(***************************************************************************)
(* Claims.                                                                 *)
(***************************************************************************)

\* C1: over every interleaving of approvals, polls and completion calls for
\* one request id, the order is created at most once for the approved
\* request, concurrent completion calls included.
C1_SideEffectAtMostOnce == \A id \in AuthReqIds : completed[id] <= 1

\* C2: a decide call (PUT /api/ciba-token) by a user who is not the owner of
\* the request is answered Forbidden and leaves the stored request unchanged.
C2_NonOwnerDecideForbidden ==
    [][\A u \in Callers, id \in AuthReqIds, a \in Actions :
         (Has(cibaFile, id) /\ cibaFile[id].userId # u /\ DecidePUT(u, id, a))
             => (resp'.code = 403 /\ cibaFile' = cibaFile)]_vars

\* C3: a popup_checkout_complete call by a user who is not the owner of the
\* popup request leaves the request's status and result unchanged.
C3_PopupCompletedByOwnerOnly ==
    [][\A u \in Callers, pid \in PopupIds :
         (Has(popupRequests, pid) /\ popupRequests[pid].userId # u
              /\ CheckoutBegin(u, "popup_checkout_complete", NoId, pid))
             => popupRequests' = popupRequests]_vars

\* C4: once the stored status of a request is approved or denied, no later
\* step changes it.
C4_TerminalImmutable ==
    [][\A id \in AuthReqIds :
         (Has(cibaFile, id) /\ Has(cibaFile', id)
              /\ cibaFile[id].status \in {"approved", "denied"})
             => cibaFile'[id].status = cibaFile[id].status]_vars

\* C5: of an approve and a deny decide call on the same pending request, only
\* one is answered with success: no decision that conflicts with the first
\* successful one succeeds too.
C5_OneDecisionWins == \A id \in AuthReqIds : ~decideLog[id].conflict

\* C6: every order a completion call creates for an authorization request is
\* created for a request whose status the handler read as approved.
C6_CheckoutOnlyWhenApproved ==
    (resp.op = "checkout.POST" /\ resp.code = 200 /\ resp.order.authReqId # NoId)
        => resp.order.status = "approved"

\* C7: after the owner has denied a pending request, no completion call
\* creates an order for that request.
C7_NoCheckoutAfterDeny == ~resp.order.afterDeny

\* C8: after the owner has approved a pending request, the poller's poll of
\* the request (still stored, its TTL not passed) observes Approved and goes
\* on to the completion call.
C8_PollerObservesApproved ==
    [][\A id \in AuthReqIds :
         (OwnerApproved(decideLog, id) /\ Has(cibaFile, id)
              /\ ~Expired(cibaFile[id], now) /\ PollerPoll(id))
             => poller'[id].pc = "checkout"]_vars

\* C9: getCibaRequest, reading an undecided request after its TTL has passed,
\* reports it as expired.
C9_ReadReportsExpired ==
    \A id \in DOMAIN cibaFile :
        (Expired(cibaFile[id], now) /\ decideLog[id].first = "none")
            => getCibaRequest(cibaFile, id).status = "expired"

\* C10: no completion call creates an order for a request whose TTL had
\* passed when the handler read it.
C10_NoCheckoutAfterExpiry == ~resp.order.expired

\* C11: the order the owner's popup completion call applies has the total of
\* the cart data stored with the popup request when it was created.
C11_AppliedOrderIsSnapshot ==
    [][\A u \in Users, pid \in PopupIds :
         (Has(popupRequests, pid) /\ popupRequests[pid].userId = u
              /\ CheckoutBegin(u, "popup_checkout_complete", NoId, pid)
              /\ resp'.code = 200)
             => resp'.order.total = popupRequests[pid].cartData.total]_vars

\* C12: on every execution of the chat stream handler controller.close() is
\* called at most once, counting the finally block, every terminal branch of
\* every poller and each poller's .catch handler, also when several
\* authorization waits are started in the same stream.
C12_ClosedAtMostOnce == stream.closeCalls <= 1

\* two waits of one chat/route.ts stream have both ended and the stream was
\* closed by one call
C12_Witness ==
    /\ stream.rev = "chat"
    /\ stream.pc = "returned"
    /\ stream.closeCalls = 1
    /\ {1, 2} \subseteq DOMAIN waits
    /\ \A w \in {1, 2} : waits[w].pc = "done"

\* C13: once a poller has been started, the stream is closed on every path
\* through the poller: when the handler has returned and every wait has
\* ended, the stream is closed.
C13_ClosedWhenWaitsEnded ==
    (/\ stream.pc = "returned"
     /\ stream.hasAsyncOperation
     /\ DOMAIN waits # {}
     /\ \A w \in DOMAIN waits : waits[w].pc = "done")
        => stream.closed

\* C14: the stream is never closed while a wait is still active, and no wait
\* enqueues an event after the stream's close.
C14_NoCloseWhileWaitActive ==
    \A w \in DOMAIN waits :
        /\ waits[w].pc = "polling" => ~stream.closed
        /\ ~waits[w].late

\* C15: each started authorization wait of a poller ends with exactly one
\* terminal event on the stream.
C15_ExactlyOneTerminalEvent ==
    \A w \in DOMAIN waits :
        (waits[w].kind # "deferred" /\ waits[w].pc = "done")
            => waits[w].terminal = 1

C19_PollByNonOwnerRejected ==
    [][\A u \in Callers, id \in AuthReqIds :
          (MemPollToken(u, id) /\ Has(cibaRequests, id) /\ cibaRequests[id].userId # u)
            => /\ resp'.code \in {401, 403}
               /\ resp'.body \notin {"authorization_pending", "approved", "access_denied"}]_vars

\* C20: a decision repeated on a decided request (approve after approve,
\* deny after deny) answers Ok and leaves the stored record as it was; a
\* conflicting second decision is refused and leaves the record as it was.
C20_RepeatNoOpConflictFails ==
    [][\A u \in Callers, id \in AuthReqIds, a \in Actions :
          (DecidePUT(u, id, a) /\ Has(cibaFile, id)
                /\ cibaFile[id].status # "pending")
            => /\ cibaFile' = cibaFile
               /\ Ok(resp'.code) <=> (cibaFile[id].status = StatusOf(a))]_vars

\* C21: a get, a decide or a delete on an id that is not in the store (never
\* created, or deleted) returns NotFound and leaves the store as it was.
C21_MissingIdNotFound ==
    [][/\ \A id \in AuthReqIds :
            (~Has(cibaFile, id)
                /\ (\/ CallGetCibaRequest(id)
                    \/ CallDeleteCibaRequest(id)
                    \/ \E st \in {"approved", "denied"} : CallUpdateCibaRequest(id, st)
                    \/ \E u \in Callers, a \in Actions : DecidePUT(u, id, a)))
              => (resp'.code = 404 /\ cibaFile' = cibaFile)
       /\ \A id \in PopupIds :
            (~Has(popupRequests, id)
                /\ (\/ CallGetPopupRequest(id)
                    \/ \E st \in {"completed", "failed"}, r \in Results, e \in Errors :
                            CallUpdatePopupRequest(id, st, r, e)))
              => (resp'.code = 404 /\ popupRequests' = popupRequests)]_vars

\* a decide was answered NotFound after the request had been created and
\* deleted
C21_Witness ==
    /\ authReqSeq = 1
    /\ ~Has(cibaFile, 1)
    /\ resp.op \in {"updateCibaRequest", "ciba-token.PUT"}
    /\ resp.code = 404

\* C22: once the poller has processed a terminal outcome of a request (the
\* completion reported, the failure reported or the expiry reported), the
\* request is no longer in the store.
C22_ProcessedRequestRemoved ==
    \A pid \in PopupIds :
        (Has(popupPoller, pid) /\ popupPoller[pid].pc = "done"
            /\ popupPoller[pid].outcome \in {"success", "failed", "expired"})
        => ~Has(popupRequests, pid)

\* C23: the page that asks the approver to decide shows the binding message
\* of the payload stored in the request it is about: the item count and the
\* total of that request's cartData.
C23_ShownMessageIsStoredPayload ==
    [][\A u \in Callers, id \in AuthReqIds, m \in Messages :
          (OpenAuthorize(u, id, m) /\ resp'.body = "Authorize Checkout")
          => resp'.message = bindingMessage(cibaRequests[id].cartData)]_vars

\* C24: a decide/transition call changes nothing of the addressed request
\* but its status (and, in the popup store, the result and error the call
\* carries): the owner id, the payload (checkoutData / cartData), the
\* creation time and the expiry are those the request had before the call.
C24_DecideChangesOnlyStatus ==
    [][/\ \A id \in AuthReqIds :
            (/\ Has(cibaFile, id)
             /\ \E st \in {"approved", "denied"} : CallUpdateCibaRequest(id, st))
            => /\ Has(cibaFile', id)
               /\ cibaFile'[id] = [cibaFile[id] EXCEPT !.status = cibaFile'[id].status]
       /\ \A id \in AuthReqIds :
            (Has(cibaRequests, id) /\ \E a \in Actions : MemDecide(id, a))
            => /\ Has(cibaRequests', id)
               /\ cibaRequests'[id] =
                    [cibaRequests[id] EXCEPT !.status = cibaRequests'[id].status]
       /\ \A id \in PopupIds :
            (/\ Has(popupRequests, id)
             /\ \E st \in {"completed", "failed"}, r \in Results, e \in Errors :
                    CallUpdatePopupRequest(id, st, r, e))
            => /\ Has(popupRequests', id)
               /\ popupRequests'[id] =
                    [popupRequests[id] EXCEPT !.status = popupRequests'[id].status,
                                              !.result = popupRequests'[id].result,
                                              !.error = popupRequests'[id].error]
      ]_vars

\* updateCibaRequestStatus has just approved a stored in-memory request.
C24_Witness ==
    /\ resp.op = "updateCibaRequestStatus" /\ resp.code = 200
    /\ Has(cibaRequests, 1) /\ cibaRequests[1].status = "approved"
    /\ cibaRequests[1].cartData = CartData

\* C25: the result of a popup request is populated only by a completion call
\* whose checkout has executed: when the owner's completion call leaves a
\* result in the request, the call is answered with the order (200).
C25_ResultOnlyAfterCheckout ==
    [][\A u \in Users, pid \in PopupIds :
          (/\ Has(popupRequests, pid)
           /\ popupRequests[pid].userId = u
           /\ CheckoutBegin(u, "popup_checkout_complete", NoId, pid)
           /\ popupRequests'[pid].result # NoResult)
          => resp'.code = 200]_vars

\* C26: every stored request that carries an expiry has
\* expiresAt = creation time + 5 minutes, in the in-memory store and in the
\* popup store, in every state from its creation to its deletion.
C26_ExpiryIsCreationPlusTTL ==
    /\ \A id \in AuthReqIds :
            Has(cibaRequests, id)
            => cibaRequests[id].expiresAt = cibaRequests[id].createdAt + TTL
    /\ \A pid \in PopupIds :
            Has(popupRequests, pid)
            => popupRequests[pid].expiresAt = popupRequests[pid].timestamp + TTL

\* C27: after saveUserCart(c), getUserCart(c.userId) returns c and nothing
\* else, and neither store holds two carts of one user.
C27_SaveThenGetReturnsCart ==
    [][\A isProduction \in BOOLEAN, c \in CartValues :
          SaveUserCart(isProduction, c)
          => /\ getUserCart(cartFile', cartBlobs', isProduction, c.userId) = {c}
             /\ \A u \in CartUserIds :
                  /\ Cardinality({i \in 1..Len(cartFile') : cartFile'[i].userId = u}) <= 1
                  /\ Cardinality({k \in DOMAIN cartBlobs' : cartBlobs'[k].userId = u}) <= 1
      ]_vars

\* The cart a store holds for a user (NoCart when it holds none).
C28_StoredCart(file, blobs, isProduction, userId) ==
    IF isProduction
    THEN IF cartKey(userId) \in DOMAIN blobs THEN blobs[cartKey(userId)] ELSE NoCart
    ELSE FindCart(file, userId)

\* C28: clearUserCart(u) of a user who has a cart leaves that cart stored
\* with no items; after deleteUserCart(u), getUserCart(u) returns null; and
\* save, get, clear and delete for u leave the cart of every other user as
\* it was.
C28_ClearDeleteAndFrame ==
    [][\A isProduction \in BOOLEAN, u \in CartUserIds :
          /\ (/\ C28_StoredCart(cartFile, cartBlobs, isProduction, u) # NoCart
              /\ ClearUserCart(isProduction, u))
             => C28_StoredCart(cartFile', cartBlobs', isProduction, u)
                    = [userId |-> u, items |-> <<>>]
          /\ DeleteUserCart(isProduction, u)
             => getUserCart(cartFile', cartBlobs', isProduction, u) = {NoCart}
          /\ (\/ ClearUserCart(isProduction, u)
              \/ DeleteUserCart(isProduction, u)
              \/ GetUserCart(isProduction, u)
              \/ \E c \in CartValues : c.userId = u /\ SaveUserCart(isProduction, c))
             => \A v \in CartUserIds \ {u} :
                    C28_StoredCart(cartFile', cartBlobs', isProduction, v)
                        = C28_StoredCart(cartFile, cartBlobs, isProduction, v)
      ]_vars

\* C29: every wait of a polling loop is at least as long as the wait before
\* it and at most the cap of 30 s, and a slow_down answer sets the loop's
\* interval to 1.5 times its value, or to the cap when that is less.
C29_IntervalsGrowToCap ==
    [][\A response \in TokenResponses :
          LoopPoll(response)
          => /\ pollLoop'.sleeps > pollLoop.sleeps
                => /\ pollLoop'.lastSleep >= pollLoop.lastSleep
                   /\ pollLoop'.lastSleep <= Sec(30)
             /\ response = "slow_down"
                => pollLoop'.interval = SlowDown(pollLoop.interval)]_vars

\* C30: a slow_down answer does not end the wait.  The loop that receives it
\* reports no denial, expiry or error, ends only when no attempt is left (the
\* exit a pending answer takes too), and otherwise polls again after a wait
\* longer than the starting interval, never shorter than its last interval.
C30_SlowDownNeverEndsWait ==
    [][LoopPoll("slow_down")
       => /\ pollLoop'.outcome \in {"none", "timeout"}
          /\ pollLoop'.pc = "done" <=> pollLoop.attempts + 1 >= MaxLoopAttempts
          /\ pollLoop'.pc = "polling"
             => IF pollLoop.fn = "waitForCibaCompletion"
                THEN pollLoop'.lastSleep > StartInterval
                ELSE /\ pollLoop'.interval > StartInterval
                     /\ pollLoop'.interval >= pollLoop.interval]_vars

\* pollForCompletion has answered slow_down until its interval reached the
\* cap, has slept that long, and still polls.
C30_Witness ==
    /\ pollLoop.fn = "pollForCompletion"
    /\ pollLoop.pc = "polling"
    /\ pollLoop.interval = Sec(30)
    /\ pollLoop.lastSleep = Sec(30)

\* C31: a poll that fails with a transport error does not end the wait at
\* once: the poller polls again, and the failures counted towards the hard
\* error are consecutive ones, a poll that succeeds setting the count back
\* to zero.
C31_TransientErrorRetried ==
    [][\A w \in WaitIds :
          /\ (WaitPoll(w, "throws") /\ waits[w].attempts = 0)
             => waits'[w].pc = "polling"
          /\ (WaitPoll(w, "pending") /\ waits[w].kind = "popup"
                 /\ waits'[w].pc = "polling")
             => waits'[w].errors = 0]_vars

\* C32: when the backend rejects the poll itself on MaxAuthErrors polls in a
\* row (3 in the source), the poller stops at that poll and reports an
\* error that is neither pending, nor a timeout, nor an expiry.
C32_RejectedPollsEndInError ==
    [][\A w \in WaitIds : \A result \in RejectedBy(stream.rev) :
          (WaitPoll(w, result) /\ ~stream.closed
              /\ waits[w].rejected + 1 >= MaxAuthErrors)
          => /\ waits'[w].pc = "done"
             /\ waits'[w].outcome \notin {"none", "timeout", "expired"}]_vars

\* C33: a polling loop never polls more often than its attempt budget, and
\* the poll that uses up the budget without a terminal answer (it finds the
\* request pending, is told to slow down, or fails) ends the loop with the
\* timeout outcome.
C33_PollsBoundedThenTimeout ==
    [][\A response \in TokenResponses :
          LoopPoll(response)
          => /\ pollLoop'.attempts <= MaxLoopAttempts
             /\ (/\ pollLoop'.attempts = MaxLoopAttempts
                 /\ response \in {"authorization_pending", "slow_down", "throws"})
                => /\ pollLoop'.pc = "done"
                   /\ pollLoop'.outcome = "timeout"]_vars

\* C34: waitForCibaCompletion throws for no expected outcome: a denial, an
\* expiry and the exhausted budget of a pending request are returned as
\* values, a pending answer with attempts left is polled again, and a poll
\* that fails before the last attempt is retried after a sleep.
C34_ExpectedOutcomesAreValues ==
    [][\A response \in TokenResponses :
          (LoopPoll(response) /\ pollLoop.fn = "waitForCibaCompletion")
          => LET last == pollLoop.attempts + 1 >= MaxLoopAttempts
                 returned(outcome) == /\ pollLoop'.pc = "done"
                                      /\ pollLoop'.outcome = outcome
                 retried == /\ pollLoop'.pc = "polling"
                            /\ pollLoop'.outcome = "none"
                            /\ pollLoop'.attempts = pollLoop.attempts + 1
                            /\ pollLoop'.sleeps = pollLoop.sleeps + 1
             IN  /\ response # "throws" => pollLoop'.outcome # "thrown"
                 /\ response = "access_denied" => returned("denied")
                 /\ response = "expired_token" => returned("expired")
                 /\ response = "authorization_pending"
                    => IF last THEN returned("timeout") ELSE retried
                 /\ (response = "throws" /\ ~last) => retried]_vars

\* waitForCibaCompletion has retried a failed poll and has then returned the
\* timeout value.
C34_Witness ==
    /\ pollLoop.fn = "waitForCibaCompletion"
    /\ pollLoop.swallowed >= 1
    /\ pollLoop.pc = "done"
    /\ pollLoop.outcome = "timeout"

C36_ExpiredNeverReturned ==
    [][\A id \in PopupIds :
          (CallGetPopupRequest(id) /\ Has(popupRequests, id))
          => IF now > popupRequests[id].expiresAt
             THEN /\ resp'.code = 404
                  /\ resp'.body = "null"
                  /\ ~Has(popupRequests', id)
             ELSE /\ resp'.code = 200
                  /\ resp'.body = popupRequests[id].status
                  /\ popupRequests' = popupRequests]_vars

\* A request was stored, its lifetime has passed, and getPopupRequest has
\* answered null and removed it.
C36_Witness ==
    /\ resp.op = "getPopupRequest"
    /\ resp.code = 404
    /\ popupSeq >= 1
    /\ ~Has(popupRequests, 1)
    /\ now > TTL

\* C37: as long as a stream has started no wait (its tools were no
\* checkout, or a checkout refused for a missing session or an empty cart),
\* hasAsyncOperation is false and the stream is open; when the model's
\* response then ends, the finally block closes the stream, and it stays
\* closed exactly once.
C37_NoWaitFinallyClosesOnce ==
    [][/\ (stream'.pc = "loop" /\ waits' = EmptyMap)
          => /\ ~stream'.hasAsyncOperation
             /\ ~stream'.closed
       /\ (StreamFinish /\ waits = EmptyMap)
          => /\ ~stream'.hasAsyncOperation
             /\ stream'.pc = "returned"
             /\ stream'.closed
       /\ (stream'.pc = "returned" /\ waits' = EmptyMap /\ ~stream'.hasAsyncOperation)
          => stream'.closeCalls = 1]_vars

\* A stream of chat/route.ts that started no wait has ended and is closed.
C37_Witness ==
    /\ stream.rev = "chat"
    /\ stream.pc = "returned"
    /\ waits = EmptyMap
    /\ ~stream.hasAsyncOperation
    /\ stream.closed
    /\ stream.closeCalls = 1

C39_Added(userId) ==
    LET done == {c \in DOMAIN cartCalls : cartCalls[c].userId = userId}
        RECURSIVE Sum(_)
        Sum(S) == IF S = {} THEN 0
                  ELSE LET c == CHOOSE x \in S : TRUE
                       IN  cartCalls[c].quantity + Sum(S \ {c})
    IN  Sum(done)

C39_Stored(userId) ==
    LET isProduction == \E c \in DOMAIN cartCalls : cartCalls[c].isProduction
        items == IF isProduction
                 THEN IF Has(cartBlobs, cartKey(userId))
                      THEN cartBlobs[cartKey(userId)].items ELSE <<>>
                 ELSE FindCart(cartFile, userId).items
    IN  IF ItemIndex(items, "1") = {} THEN 0
        ELSE items[CHOOSE i \in ItemIndex(items, "1") : TRUE].quantity

C39_NoLostUpdate ==
    \A u \in CartCallers :
        (\A c \in DOMAIN cartCalls : cartCalls[c].pc = "done")
        => C39_Stored(u) = C39_Added(u)

====
